---------------------------- MODULE Spec2Model ----------------------------
(***************************************************************************)
(* A model of the pose-mirror / webTest programs of graphics_final:        *)
(*   - SkeletonRenderer      (pose-mirror/src/skeletonRenderer.js)         *)
(*   - CharacterPoseViewer   (webTest/characterViewer.js)                  *)
(*   - PoseModelViewer       (webTest/modelViewer.js)                      *)
(*   - PoseExporter/Receiver (webTest/poseExporter.js)                     *)
(*                                                                         *)
(* Numbers.  The programs compute with IEEE doubles.  The model computes   *)
(* with integers, 8000 to the unit (Unit = 1.0), and draws every coordinate*)
(* from multiples of 1/4 and every scale from powers of two, so that each  *)
(* subtraction, doubling, halving and product below is exact both in the   *)
(* model and in doubles.  A square root is kept as the number under the    *)
(* root, and a normalised vector as the primitive integer vector of its    *)
(* direction; a rotation built by Quaternion.setFromUnitVectors is kept as *)
(* the pair (from, to) of unit vectors it maps onto each other.            *)
(***************************************************************************)
EXTENDS Integers, Sequences, FiniteSets, TLC

VARIABLES
  skeletonRenderer,   \* the SkeletonRenderer object (after init())
  characterViewer,    \* the CharacterPoseViewer object and its scene
  modelViewer,        \* the PoseModelViewer object
  poseExporter,       \* the PoseExporter object of the tracking page
  poseReceivers,      \* the PoseReceiver objects
  outbox,             \* what the exporter has put on its transports
  now,                \* the reading of performance.now()
  poseMirrorApp,      \* the PoseMirrorApp object and its UIController
  poseTracker,        \* the PoseTracker object, its video element and requests
  call,               \* the most recent call: its name, arguments and outcome
  calls               \* how many calls have been made

vars == <<skeletonRenderer, characterViewer, modelViewer,
          poseExporter, poseReceivers, outbox, now,
          poseMirrorApp, poseTracker, call, calls>>

\* the objects an action of one program leaves alone
Relay == <<poseExporter, poseReceivers, outbox, now>>
Mirror == <<poseMirrorApp, poseTracker>>
OtherThanSkeleton == <<characterViewer, modelViewer, Relay, Mirror>>
OtherThanCharacter == <<skeletonRenderer, modelViewer, Relay, Mirror>>
OtherThanModelViewer == <<skeletonRenderer, characterViewer, Relay, Mirror>>
OtherThanRelay == <<skeletonRenderer, characterViewer, modelViewer, Mirror>>
OtherThanMirror == <<characterViewer, modelViewer, Relay>>

---------------------------------------------------------------------------
(* Arithmetic                                                              *)

Unit == 8 * 10 ^ 3
Half == Unit \div 2
Quarter == Unit \div 4

\* a * b for two fixed-point numbers
Mul(a, b) == (a * b) \div Unit

Abs(a) == IF a < 0 THEN -a ELSE a

RECURSIVE Gcd(_, _)
Gcd(a, b) == IF b = 0 THEN a ELSE Gcd(b, a % b)

Vec(x, y, z) == [x |-> x, y |-> y, z |-> z]
ZeroVec == Vec(0, 0, 0)
VAdd(a, b) == Vec(a.x + b.x, a.y + b.y, a.z + b.z)
VSub(a, b) == Vec(a.x - b.x, a.y - b.y, a.z - b.z)
VScale(a, s) == Vec(Mul(a.x, s), Mul(a.y, s), Mul(a.z, s))

\* Math.sqrt(n), kept as the number under the root (in Unit * Unit)
Sqrt(n) == [sqrtOf |-> n]
SqrtPositive(len) == len.sqrtOf > 0
\* the number 1 as a length
OneLength == Sqrt(Unit * Unit)

\* Vector3.length()
VLength(d) == Sqrt(d.x * d.x + d.y * d.y + d.z * d.z)

\* Vector3.normalize(): the direction of d; the zero vector stays zero
Normalize(d) ==
  LET g == Gcd(Gcd(Abs(d.x), Abs(d.y)), Abs(d.z))
  IN IF g = 0 THEN ZeroVec ELSE Vec(d.x \div g, d.y \div g, d.z \div g)

YAxis == Vec(0, 1, 0)
NegYAxis == Vec(0, -1, 0)

\* new THREE.Quaternion(): the identity rotation
IdentityQuaternion == [from |-> YAxis, to |-> YAxis]

\* Quaternion.setFromUnitVectors(vFrom, vTo): the shortest-arc rotation of
\* vFrom onto vTo, the identity when they are equal; handed the zero vector
\* (a normalised zero direction) it computes (0, 0, 0, 1), the identity
SetFromUnitVectors(vFrom, vTo) ==
  IF vFrom = vTo \/ vTo = ZeroVec
  THEN IdentityQuaternion
  ELSE [from |-> vFrom, to |-> vTo]

---------------------------------------------------------------------------
(* Landmark frames                                                         *)

NumLandmarks == 33
LandmarkIds == 0 .. (NumLandmarks - 1)

NOSE == 0
LEFT_SHOULDER == 11
RIGHT_SHOULDER == 12
LEFT_ELBOW == 13
RIGHT_ELBOW == 14
LEFT_WRIST == 15
RIGHT_WRIST == 16
LEFT_HIP == 23
RIGHT_HIP == 24
LEFT_KNEE == 25
RIGHT_KNEE == 26
LEFT_ANKLE == 27
RIGHT_ANKLE == 28

\* A landmark list entry is a record with x, y, z and (usually) visibility,
\* or the null entry.
NullEntry == [null |-> TRUE]
IsNullEntry(lm) == "null" \in DOMAIN lm
HasVisibility(lm) == "visibility" \in DOMAIN lm

\* landmarks[i] of a JavaScript array: undefined past the end
Entry(list, i) == IF i \in DOMAIN list THEN list[i] ELSE NullEntry

\* lm.visibility > t, false for a missing (undefined) visibility
VisibilityAbove(lm, t) == HasVisibility(lm) /\ lm.visibility > t

\* The landmark list argument of a call: null/undefined, or an array.
NullList == [isNull |-> TRUE, items |-> <<>>]
List(items) == [isNull |-> FALSE, items |-> items]
Length(l) == Cardinality(DOMAIN l.items)

\* The frames the model feeds: a rest pose in which every landmark has its
\* own position, or the same pose shifted by one vector; two landmarks (the
\* left shoulder and the left elbow) vary over the cases a frame can bring.
Poses == {"base", "shift"}
Variants == {"ok", "atThreshold", "zero", "noVisibility", "null", "collapsed"}
ShoulderVariants == {"ok", "zero", "null"}
ShiftVec == Vec(Quarter, 0, Quarter)
BasePos(i) == Vec(Quarter * (i % 5), Quarter * ((i \div 5) % 5), Quarter * (i \div 25))
PosePos(i, pose) == IF pose = "base" THEN BasePos(i) ELSE VAdd(BasePos(i), ShiftVec)

WithVisibility(p, v) == [x |-> p.x, y |-> p.y, z |-> p.z, visibility |-> v]

FrameLandmark(i, pose, variant) ==
  CASE variant = "ok"           -> WithVisibility(PosePos(i, pose), Unit)
    [] variant = "atThreshold"  -> WithVisibility(PosePos(i, pose), 3 * (Unit \div 10))
    [] variant = "zero"         -> WithVisibility(PosePos(i, pose), 0)
    [] variant = "noVisibility" -> PosePos(i, pose)
    [] variant = "null"         -> NullEntry
    [] variant = "collapsed"    -> WithVisibility(PosePos(LEFT_SHOULDER, pose), Unit)

LandmarkList(n, pose, vShoulder, vElbow) ==
  [i \in 0 .. (n - 1) |->
     IF i = LEFT_SHOULDER THEN FrameLandmark(i, pose, vShoulder)
     ELSE IF i = LEFT_ELBOW THEN FrameLandmark(i, pose, vElbow)
     ELSE FrameLandmark(i, pose, "ok")]

\* the rest pose with the left shoulder at (0, 1, 0) and the left elbow at
\* (0, 0.5, 0), both with visibility 1
ScenarioList ==
  [i \in 0 .. (NumLandmarks - 1) |->
     IF i = LEFT_SHOULDER THEN WithVisibility(Vec(0, Unit, 0), Unit)
     ELSE IF i = LEFT_ELBOW THEN WithVisibility(Vec(0, Half, 0), Unit)
     ELSE FrameLandmark(i, "base", "ok")]

\* the lengths of the malformed lists: empty, one short, one long
MalformedLengths == {0, NumLandmarks - 1, NumLandmarks + 1}

\* the number of calls a behaviour makes
MaxCalls == 3

---------------------------------------------------------------------------
(* SkeletonRenderer                                                        *)

\* connections of createSkeleton, in order (bone k joins start and end)
Connections ==
  << <<0, 2>>, <<0, 5>>,
     <<11, 12>>,
     <<11, 23>>, <<12, 24>>,
     <<23, 24>>,
     <<11, 13>>, <<13, 15>>,
     <<12, 14>>, <<14, 16>>,
     <<23, 25>>, <<25, 27>>, <<27, 29>>, <<27, 31>>,
     <<24, 26>>, <<26, 28>>, <<28, 30>>, <<28, 32>> >>

BoneIds == DOMAIN Connections

\* createSkeleton(): 33 fresh joints and one fresh bone mesh per connection
CreateSkeleton(self) ==
  [self EXCEPT
     !.joints = [i \in LandmarkIds |->
                   [position |-> ZeroVec, visible |-> self.showJoints]],
     !.bones = [k \in BoneIds |->
                  [position |-> ZeroVec, scaleY |-> OneLength,
                   quaternion |-> IdentityQuaternion,
                   visible |-> self.showBones,
                   start |-> Connections[k][1], end |-> Connections[k][2]]],
     !.skeleton = [scale |-> self.scale]]

\* constructor(), then init() which ends in createSkeleton()
NewSkeletonRenderer ==
  CreateSkeleton([joints |-> <<>>, bones |-> <<>>, skeleton |-> [scale |-> Unit],
                  scale |-> Unit, boneThickness |-> Unit \div 20,
                  showJoints |-> TRUE, showBones |-> TRUE])

\* mutant: the guard of characterViewer.js, which lets longer lists through
RejectsShortLandmarks(landmarks) ==
  landmarks.isNull \/ Length(landmarks) < NumLandmarks

\* if (!landmarks || landmarks.length !== 33) return;
RejectsLandmarks(landmarks) ==
  landmarks.isNull \/ Length(landmarks) # NumLandmarks

\* the visibility a landmark must exceed to be drawn
JointVisibilityThreshold == 3 * (Unit \div 10)

\* the body of this.joints.forEach for one joint
UpdateJoint(self, joint, lm) ==
  IF ~IsNullEntry(lm) /\ VisibilityAbove(lm, JointVisibilityThreshold)
  THEN LET x == (lm.x - Half) * 2
           y == (Half - lm.y) * 2
           z == (-lm.z) * 2
       IN [position |-> Vec(Mul(x, self.scale), Mul(y, self.scale), Mul(z, self.scale)),
           visible |-> self.showJoints]
  ELSE [joint EXCEPT !.visible = FALSE]

\* mutant: a bone is drawn when either of its joints is visible
UpdateBoneEitherJoint(self, bone, joints) ==
  LET startJoint == joints[bone.start]
      endJoint == joints[bone.end]
  IN IF startJoint.visible \/ endJoint.visible
     THEN LET mid == Vec((startJoint.position.x + endJoint.position.x) \div 2,
                         (startJoint.position.y + endJoint.position.y) \div 2,
                         (startJoint.position.z + endJoint.position.z) \div 2)
              d == VSub(endJoint.position, startJoint.position)
              length == VLength(d)
          IN IF SqrtPositive(length)
             THEN [bone EXCEPT !.position = mid,
                               !.scaleY = length,
                               !.visible = self.showBones,
                               !.quaternion = SetFromUnitVectors(YAxis, Normalize(d))]
             ELSE [bone EXCEPT !.position = mid, !.visible = FALSE]
     ELSE [bone EXCEPT !.visible = FALSE]

\* mutant: a bone that a frame has hidden is not touched again
UpdateBoneStaysHidden(self, bone, joints) ==
  LET startJoint == joints[bone.start]
      endJoint == joints[bone.end]
  IN IF ~bone.visible /\ self.showBones THEN bone
     ELSE IF startJoint.visible /\ endJoint.visible
     THEN LET mid == Vec((startJoint.position.x + endJoint.position.x) \div 2,
                         (startJoint.position.y + endJoint.position.y) \div 2,
                         (startJoint.position.z + endJoint.position.z) \div 2)
              d == VSub(endJoint.position, startJoint.position)
              length == VLength(d)
          IN IF SqrtPositive(length)
             THEN [bone EXCEPT !.position = mid,
                               !.scaleY = length,
                               !.visible = self.showBones,
                               !.quaternion = SetFromUnitVectors(YAxis, Normalize(d))]
             ELSE [bone EXCEPT !.position = mid, !.visible = FALSE]
     ELSE [bone EXCEPT !.visible = FALSE]

\* mutant: a shown bone is scaled by the distance of its midpoint from the origin
UpdateBoneScaledByMidpoint(self, bone, joints) ==
  LET startJoint == joints[bone.start]
      endJoint == joints[bone.end]
  IN IF startJoint.visible /\ endJoint.visible
     THEN LET mid == Vec((startJoint.position.x + endJoint.position.x) \div 2,
                         (startJoint.position.y + endJoint.position.y) \div 2,
                         (startJoint.position.z + endJoint.position.z) \div 2)
              d == VSub(endJoint.position, startJoint.position)
              length == VLength(d)
          IN IF SqrtPositive(length)
             THEN [bone EXCEPT !.position = mid,
                               !.scaleY = VLength(mid),
                               !.visible = self.showBones,
                               !.quaternion = SetFromUnitVectors(YAxis, Normalize(d))]
             ELSE [bone EXCEPT !.position = mid, !.visible = FALSE]
     ELSE [bone EXCEPT !.visible = FALSE]

\* mutant: a shown bone keeps the rotation it had
UpdateBoneKeepsRotation(self, bone, joints) ==
  LET startJoint == joints[bone.start]
      endJoint == joints[bone.end]
  IN IF startJoint.visible /\ endJoint.visible
     THEN LET mid == Vec((startJoint.position.x + endJoint.position.x) \div 2,
                         (startJoint.position.y + endJoint.position.y) \div 2,
                         (startJoint.position.z + endJoint.position.z) \div 2)
              d == VSub(endJoint.position, startJoint.position)
              length == VLength(d)
          IN IF SqrtPositive(length)
             THEN [bone EXCEPT !.position = mid,
                               !.scaleY = length,
                               !.visible = self.showBones]
             ELSE [bone EXCEPT !.position = mid, !.visible = FALSE]
     ELSE [bone EXCEPT !.visible = FALSE]

\* the body of this.bones.forEach for one bone, given the updated joints
UpdateBone(self, bone, joints) ==
  LET startJoint == joints[bone.start]
      endJoint == joints[bone.end]
  IN IF startJoint.visible /\ endJoint.visible
     THEN LET mid == Vec((startJoint.position.x + endJoint.position.x) \div 2,
                         (startJoint.position.y + endJoint.position.y) \div 2,
                         (startJoint.position.z + endJoint.position.z) \div 2)
              d == VSub(endJoint.position, startJoint.position)
              length == VLength(d)
          IN IF SqrtPositive(length)
             THEN [bone EXCEPT !.position = mid,
                               !.scaleY = length,
                               !.visible = self.showBones,
                               !.quaternion = SetFromUnitVectors(YAxis, Normalize(d))]
             ELSE [bone EXCEPT !.position = mid, !.visible = FALSE]
     ELSE [bone EXCEPT !.visible = FALSE]

\* mutant: a bone that starts where a hidden bone ends is hidden with it
updatePosePropagatesHiding(self, landmarks) ==
  IF RejectsLandmarks(landmarks) THEN self
  ELSE LET joints == [i \in DOMAIN self.joints |->
                        UpdateJoint(self, self.joints[i], Entry(landmarks.items, i))]
           bones == [k \in DOMAIN self.bones |-> UpdateBone(self, self.bones[k], joints)]
       IN [self EXCEPT
             !.joints = joints,
             !.bones = [k \in DOMAIN bones |->
                          IF \E p \in DOMAIN bones :
                               bones[p].end = bones[k].start /\ ~bones[p].visible
                          THEN [bones[k] EXCEPT !.visible = FALSE]
                          ELSE bones[k]]]

\* updatePose(landmarks): the renderer after the call
updatePose(self, landmarks) ==
  IF RejectsLandmarks(landmarks) THEN self
  ELSE LET joints == [i \in DOMAIN self.joints |->
                        UpdateJoint(self, self.joints[i], Entry(landmarks.items, i))]
       IN [self EXCEPT
             !.joints = joints,
             !.bones = [k \in DOMAIN self.bones |-> UpdateBone(self, self.bones[k], joints)]]

\* setScale(scale)
setScale(self, scale) ==
  [self EXCEPT !.scale = scale, !.skeleton = [scale |-> scale]]

\* setBoneThickness(thickness)
setBoneThickness(self, thickness) ==
  CreateSkeleton([self EXCEPT !.boneThickness = thickness])

\* setShowJoints(show): userData.visible is never set, so every joint follows
setShowJoints(self, show) ==
  [self EXCEPT !.showJoints = show,
               !.joints = [i \in DOMAIN self.joints |->
                             [self.joints[i] EXCEPT !.visible = show]]]

\* setShowBones(show): userData.visible is never set, so every bone follows
setShowBones(self, show) ==
  [self EXCEPT !.showBones = show,
               !.bones = [k \in DOMAIN self.bones |->
                            [self.bones[k] EXCEPT !.visible = show]]]

ScaleValues == {Half, 2 * Unit}
ThicknessValues == {Unit \div 20, Unit \div 10}

\* poseLandmarks as the renderer may be handed them
SkFrames ==
  {NullList}
  \cup {List(LandmarkList(n, "base", "ok", "ok")) : n \in MalformedLengths}
  \cup {List(LandmarkList(NumLandmarks, pose, vs, ve)) :
          pose \in Poses, vs \in ShoulderVariants, ve \in Variants}
  \cup {List(ScenarioList)}

\* a TypeError escapes updatePose when a null list gets past its guard
updatePoseThrows(self, landmarks) ==
  ~RejectsLandmarks(landmarks) /\ landmarks.isNull

---------------------------------------------------------------------------
(* CharacterPoseViewer                                                     *)

\* a decimal literal of the source, given in hundredths (Dec(40) is 0.4)
Dec(n) == n * (Unit \div 100)

\* a / b of a length and a number, kept as the pair
Div(len, d) == [num |-> len, den |-> d]
\* scale.y of a fresh mesh
OneScale == Div(OneLength, Unit)

\* a.lerp(b, 0.5)
Lerp(a, b) ==
  Vec(a.x + (b.x - a.x) \div 2, a.y + (b.y - a.y) \div 2, a.z + (b.z - a.z) \div 2)

\* length > 0.01 in setLimbRotation and updateBones
LongerThanEpsilon(len) == len.sqrtOf > Dec(1) * Dec(1)

\* the value of a variable that holds no object; objects are numbered from 1
Null == 0

\* setInterval(..., 1000) of setupEventListeners: the period of the check of
\* the receiving status, and the age in milliseconds the last frame must
\* exceed for the status to be reset
WatchdogInterval == 1000
StatusTimeout == 1000

\* new THREE.Mesh(geometry, material) placed at position; height is the
\* y extent of its geometry
Mesh(owner, position, height) ==
  [owner |-> owner, position |-> position, quaternion |-> IdentityQuaternion,
   scaleY |-> OneScale, visible |-> TRUE, height |-> height]

\* createLimb(name, startPos, ..., length): the bone map with the four meshes
\* of the limb stored under name + 'Upper', 'Joint', 'Lower', 'End'
createLimb(bones, owner, name, startPos, length) ==
  ((name \o "Upper") :>
      Mesh(owner, Vec(startPos.x, startPos.y - length \div 2, startPos.z), length))
  @@ ((name \o "Joint") :>
      Mesh(owner, Vec(startPos.x, startPos.y - length, startPos.z), Dec(12)))
  @@ ((name \o "Lower") :>
      Mesh(owner, Vec(startPos.x, startPos.y - (3 * length) \div 2, startPos.z), length))
  @@ ((name \o "End") :>
      Mesh(owner, Vec(startPos.x, startPos.y - 2 * length, startPos.z), Dec(10)))
  @@ bones

\* the common shape of the three procedural characters: a new group with
\* head, torso, hips and four limbs stored into this.bones, added to the scene
BuildCharacter(self, name, head, torso, hips, arm, leg) ==
  LET id == self.nextId
      b0 == ("head" :> Mesh(id, head.position, head.height))
            @@ ("torso" :> Mesh(id, torso.position, torso.height))
            @@ ("hips" :> Mesh(id, hips.position, hips.height))
            @@ self.bones
      b1 == createLimb(b0, id, "leftArm", Vec(-arm.x, arm.y, 0), arm.length)
      b2 == createLimb(b1, id, "rightArm", Vec(arm.x, arm.y, 0), arm.length)
      b3 == createLimb(b2, id, "leftLeg", Vec(-leg.x, leg.y, 0), leg.length)
      b4 == createLimb(b3, id, "rightLeg", Vec(leg.x, leg.y, 0), leg.length)
  IN [self EXCEPT
        !.characterModel = id,
        !.characterMesh = id,
        !.bones = b4,
        !.objects = (id :> [name |-> name, position |-> ZeroVec, nodes |-> <<>>]) @@ @,
        !.scene = @ \cup {id},
        !.nextId = id + 1]

Part(position, height) == [position |-> position, height |-> height]
\* the start of the right limb (the left one is mirrored) and its length
Limb(x, y, length) == [x |-> x, y |-> y, length |-> length]

createProceduralCharacter(self) ==
  BuildCharacter(self, "character",
                 Part(Vec(0, Dec(150), 0), Dec(30)),
                 Part(Vec(0, Dec(110), 0), Dec(60)),
                 Part(Vec(0, Dec(75), 0), Dec(20)),
                 Limb(Dec(25), Dec(130), Dec(40)),
                 Limb(Dec(15), Dec(65), Dec(50)))

createRobotCharacter(self) ==
  BuildCharacter(self, "robot",
                 Part(Vec(0, Dec(150), 0), Dec(25)),
                 Part(Vec(0, Dec(110), 0), Dec(60)),
                 Part(Vec(0, Dec(75), 0), Dec(15)),
                 Limb(Dec(27), Dec(130), Dec(35)),
                 Limb(Dec(15), Dec(65), Dec(45)))

createStickman(self) ==
  BuildCharacter(self, "stickman",
                 Part(Vec(0, Dec(150), 0), Dec(24)),
                 Part(Vec(0, Dec(105), 0), Dec(70)),
                 Part(Vec(0, Dec(70), 0), Dec(16)),
                 Limb(Dec(15), Dec(135), Dec(35)),
                 Limb(Dec(10), Dec(70), Dec(45)))

\* constructor(): the fields, then createProceduralCharacter()
NewCharacterPoseViewer ==
  createProceduralCharacter(
    [characterModel |-> Null, characterMesh |-> Null, bones |-> <<>>,
     loadedGLTFModel |-> Null, gltfBones |-> <<>>, modelType |-> "humanoid",
     lastPoseData |-> Null, currentPose |-> Null,
     objects |-> <<>>, scene |-> {}, pendingLoads |-> <<>>, nextId |-> 1,
     indicator |-> "disconnected", watchdogAt |-> WatchdogInterval])

\* getPos(index) of updateCharacterFromPose and updateGLTFModelFromPose
getPos(lm, useWorldCoords) ==
  IF useWorldCoords
  THEN Vec(-lm.x, -lm.y + Dec(150), -lm.z)
  ELSE Vec((lm.x - Half) * 2, -((lm.y - Half) * 2) + Dec(150), (-lm.z) * 2)

\* updateLimb(name, startIdx, midIdx, endIdx, getPos) on the bone map
updateLimb(bones, name, start, mid, end) ==
  LET Has(k) == k \in DOMAIN bones
      b1 == IF Has(name \o "Upper")
            THEN [bones EXCEPT ![name \o "Upper"] =
                    [@ EXCEPT !.position = Lerp(start, mid),
                              !.quaternion = SetFromUnitVectors(NegYAxis, Normalize(VSub(mid, start))),
                              !.scaleY = Div(VLength(VSub(start, mid)), Dec(40))]]
            ELSE bones
      b2 == IF Has(name \o "Joint")
            THEN [b1 EXCEPT ![name \o "Joint"] = [@ EXCEPT !.position = mid]]
            ELSE b1
      b3 == IF Has(name \o "Lower")
            THEN [b2 EXCEPT ![name \o "Lower"] =
                    [@ EXCEPT !.position = Lerp(mid, end),
                              !.quaternion = SetFromUnitVectors(NegYAxis, Normalize(VSub(end, mid))),
                              !.scaleY = Div(VLength(VSub(mid, end)), Dec(40))]]
            ELSE b2
  IN IF Has(name \o "End")
     THEN [b3 EXCEPT ![name \o "End"] = [@ EXCEPT !.position = end]]
     ELSE b3

\* String.prototype.toLowerCase on a sequence of characters
UpperCaseLetters ==
  <<"A", "B", "C", "D", "E", "F", "G", "H", "I", "J", "K", "L", "M",
    "N", "O", "P", "Q", "R", "S", "T", "U", "V", "W", "X", "Y", "Z">>
LowerCaseLetters ==
  <<"a", "b", "c", "d", "e", "f", "g", "h", "i", "j", "k", "l", "m",
    "n", "o", "p", "q", "r", "s", "t", "u", "v", "w", "x", "y", "z">>
ToLower ==
  [c \in {UpperCaseLetters[k] : k \in DOMAIN UpperCaseLetters} |->
     LowerCaseLetters[CHOOSE k \in DOMAIN UpperCaseLetters : UpperCaseLetters[k] = c]]
LowerChar(c) == IF c \in DOMAIN ToLower THEN ToLower[c] ELSE c
toLowerCase(s) == [k \in DOMAIN s |-> LowerChar(s[k])]

\* String.prototype.includes
includes(s, t) ==
  \E i \in 0 .. (Len(s) - Len(t)) : SubSeq(s, i + 1, i + Len(t)) = t

\* commonBoneNames: each role with its aliases, in the order of the table;
\* a name is the sequence of its characters
commonBoneNames ==
  <<
     [key |-> "head", aliases |->
      << <<"h", "e", "a", "d">>,
        <<"H", "e", "a", "d">>,
        <<"H", "E", "A", "D">>,
        <<"n", "e", "c", "k">>,
        <<"N", "e", "c", "k">>,
        <<"c", "r", "a", "n", "i", "u", "m">>,
        <<"m", "i", "x", "a", "m", "o", "r", "i", "g", "H", "e", "a", "d">>,
        <<"m", "i", "x", "a", "m", "o", "r", "i", "g", "N", "e", "c", "k">> >>],
     [key |-> "spine", aliases |->
      << <<"s", "p", "i", "n", "e">>,
        <<"S", "p", "i", "n", "e">>,
        <<"S", "P", "I", "N", "E">>,
        <<"t", "o", "r", "s", "o">>,
        <<"T", "o", "r", "s", "o">>,
        <<"c", "h", "e", "s", "t">>,
        <<"C", "h", "e", "s", "t">>,
        <<"b", "a", "c", "k">>,
        <<"m", "i", "x", "a", "m", "o", "r", "i", "g", "S", "p", "i", "n", "e">>,
        <<"m", "i", "x", "a", "m", "o", "r", "i", "g", "S", "p", "i", "n", "e", "1">>,
        <<"m", "i", "x", "a", "m", "o", "r", "i", "g", "S", "p", "i", "n", "e", "2">> >>],
     [key |-> "hips", aliases |->
      << <<"h", "i", "p", "s">>,
        <<"H", "i", "p", "s">>,
        <<"H", "I", "P", "S">>,
        <<"p", "e", "l", "v", "i", "s">>,
        <<"P", "e", "l", "v", "i", "s">>,
        <<"r", "o", "o", "t">>,
        <<"m", "i", "x", "a", "m", "o", "r", "i", "g", "H", "i", "p", "s">> >>],
     [key |-> "leftShoulder", aliases |->
      << <<"L", "e", "f", "t", "S", "h", "o", "u", "l", "d", "e", "r">>,
        <<"L", "_", "S", "h", "o", "u", "l", "d", "e", "r">>,
        <<"s", "h", "o", "u", "l", "d", "e", "r", ".", "L">>,
        <<"L", "e", "f", "t", "A", "r", "m">>,
        <<"s", "h", "o", "u", "l", "d", "e", "r", "_", "L">>,
        <<"u", "p", "p", "e", "r", "a", "r", "m", "_", "l">>,
        <<"m", "i", "x", "a", "m", "o", "r", "i", "g", "L", "e", "f", "t", "S", "h", "o", "u", "l", "d", "e", "r">>,
        <<"m", "i", "x", "a", "m", "o", "r", "i", "g", "L", "e", "f", "t", "A", "r", "m">> >>],
     [key |-> "rightShoulder", aliases |->
      << <<"R", "i", "g", "h", "t", "S", "h", "o", "u", "l", "d", "e", "r">>,
        <<"R", "_", "S", "h", "o", "u", "l", "d", "e", "r">>,
        <<"s", "h", "o", "u", "l", "d", "e", "r", ".", "R">>,
        <<"R", "i", "g", "h", "t", "A", "r", "m">>,
        <<"s", "h", "o", "u", "l", "d", "e", "r", "_", "R">>,
        <<"u", "p", "p", "e", "r", "a", "r", "m", "_", "r">>,
        <<"m", "i", "x", "a", "m", "o", "r", "i", "g", "R", "i", "g", "h", "t", "S", "h", "o", "u", "l", "d", "e", "r">>,
        <<"m", "i", "x", "a", "m", "o", "r", "i", "g", "R", "i", "g", "h", "t", "A", "r", "m">> >>],
     [key |-> "leftElbow", aliases |->
      << <<"L", "e", "f", "t", "E", "l", "b", "o", "w">>,
        <<"L", "_", "E", "l", "b", "o", "w">>,
        <<"e", "l", "b", "o", "w", ".", "L">>,
        <<"L", "e", "f", "t", "F", "o", "r", "e", "A", "r", "m">>,
        <<"f", "o", "r", "e", "a", "r", "m", "_", "l">>,
        <<"l", "o", "w", "e", "r", "a", "r", "m", "_", "l">>,
        <<"m", "i", "x", "a", "m", "o", "r", "i", "g", "L", "e", "f", "t", "F", "o", "r", "e", "A", "r", "m">> >>],
     [key |-> "rightElbow", aliases |->
      << <<"R", "i", "g", "h", "t", "E", "l", "b", "o", "w">>,
        <<"R", "_", "E", "l", "b", "o", "w">>,
        <<"e", "l", "b", "o", "w", ".", "R">>,
        <<"R", "i", "g", "h", "t", "F", "o", "r", "e", "A", "r", "m">>,
        <<"f", "o", "r", "e", "a", "r", "m", "_", "r">>,
        <<"l", "o", "w", "e", "r", "a", "r", "m", "_", "r">>,
        <<"m", "i", "x", "a", "m", "o", "r", "i", "g", "R", "i", "g", "h", "t", "F", "o", "r", "e", "A", "r", "m">> >>],
     [key |-> "leftWrist", aliases |->
      << <<"L", "e", "f", "t", "H", "a", "n", "d">>,
        <<"L", "_", "H", "a", "n", "d">>,
        <<"h", "a", "n", "d", ".", "L">>,
        <<"L", "e", "f", "t", "W", "r", "i", "s", "t">>,
        <<"h", "a", "n", "d", "_", "l">>,
        <<"m", "i", "x", "a", "m", "o", "r", "i", "g", "L", "e", "f", "t", "H", "a", "n", "d">> >>],
     [key |-> "rightWrist", aliases |->
      << <<"R", "i", "g", "h", "t", "H", "a", "n", "d">>,
        <<"R", "_", "H", "a", "n", "d">>,
        <<"h", "a", "n", "d", ".", "R">>,
        <<"R", "i", "g", "h", "t", "W", "r", "i", "s", "t">>,
        <<"h", "a", "n", "d", "_", "r">>,
        <<"m", "i", "x", "a", "m", "o", "r", "i", "g", "R", "i", "g", "h", "t", "H", "a", "n", "d">> >>],
     [key |-> "leftHip", aliases |->
      << <<"L", "e", "f", "t", "H", "i", "p">>,
        <<"L", "_", "H", "i", "p">>,
        <<"h", "i", "p", ".", "L">>,
        <<"L", "e", "f", "t", "U", "p", "L", "e", "g">>,
        <<"t", "h", "i", "g", "h", "_", "l">>,
        <<"u", "p", "p", "e", "r", "l", "e", "g", "_", "l">>,
        <<"m", "i", "x", "a", "m", "o", "r", "i", "g", "L", "e", "f", "t", "U", "p", "L", "e", "g">> >>],
     [key |-> "rightHip", aliases |->
      << <<"R", "i", "g", "h", "t", "H", "i", "p">>,
        <<"R", "_", "H", "i", "p">>,
        <<"h", "i", "p", ".", "R">>,
        <<"R", "i", "g", "h", "t", "U", "p", "L", "e", "g">>,
        <<"t", "h", "i", "g", "h", "_", "r">>,
        <<"u", "p", "p", "e", "r", "l", "e", "g", "_", "r">>,
        <<"m", "i", "x", "a", "m", "o", "r", "i", "g", "R", "i", "g", "h", "t", "U", "p", "L", "e", "g">> >>],
     [key |-> "leftKnee", aliases |->
      << <<"L", "e", "f", "t", "K", "n", "e", "e">>,
        <<"L", "_", "K", "n", "e", "e">>,
        <<"k", "n", "e", "e", ".", "L">>,
        <<"L", "e", "f", "t", "L", "e", "g">>,
        <<"s", "h", "i", "n", "_", "l">>,
        <<"l", "o", "w", "e", "r", "l", "e", "g", "_", "l">>,
        <<"c", "a", "l", "f", "_", "l">>,
        <<"m", "i", "x", "a", "m", "o", "r", "i", "g", "L", "e", "f", "t", "L", "e", "g">> >>],
     [key |-> "rightKnee", aliases |->
      << <<"R", "i", "g", "h", "t", "K", "n", "e", "e">>,
        <<"R", "_", "K", "n", "e", "e">>,
        <<"k", "n", "e", "e", ".", "R">>,
        <<"R", "i", "g", "h", "t", "L", "e", "g">>,
        <<"s", "h", "i", "n", "_", "r">>,
        <<"l", "o", "w", "e", "r", "l", "e", "g", "_", "r">>,
        <<"c", "a", "l", "f", "_", "r">>,
        <<"m", "i", "x", "a", "m", "o", "r", "i", "g", "R", "i", "g", "h", "t", "L", "e", "g">> >>],
     [key |-> "leftAnkle", aliases |->
      << <<"L", "e", "f", "t", "A", "n", "k", "l", "e">>,
        <<"L", "_", "A", "n", "k", "l", "e">>,
        <<"a", "n", "k", "l", "e", ".", "L">>,
        <<"L", "e", "f", "t", "F", "o", "o", "t">>,
        <<"f", "o", "o", "t", "_", "l">>,
        <<"m", "i", "x", "a", "m", "o", "r", "i", "g", "L", "e", "f", "t", "F", "o", "o", "t">> >>],
     [key |-> "rightAnkle", aliases |->
      << <<"R", "i", "g", "h", "t", "A", "n", "k", "l", "e">>,
        <<"R", "_", "A", "n", "k", "l", "e">>,
        <<"a", "n", "k", "l", "e", ".", "R">>,
        <<"R", "i", "g", "h", "t", "F", "o", "o", "t">>,
        <<"f", "o", "o", "t", "_", "r">>,
        <<"m", "i", "x", "a", "m", "o", "r", "i", "g", "R", "i", "g", "h", "t", "F", "o", "o", "t">> >>]
  >>

\* alias.toLowerCase() of every alias of the table
LowerCaseAliases ==
  [r \in DOMAIN commonBoneNames |->
     [k \in DOMAIN commonBoneNames[r].aliases |->
        toLowerCase(commonBoneNames[r].aliases[k])]]

\* some alias of role r is contained in the name, ignoring case
MatchesRole(name, r) ==
  LET lowerName == toLowerCase(name)
  IN \E k \in DOMAIN LowerCaseAliases[r] : includes(lowerName, LowerCaseAliases[r][k])

\* mutant: a role is bound to the last object that matches it
RECURSIVE BindRolesRebinding(_, _, _)
BindRolesRebinding(names, i, found) ==
  IF i > Len(names) THEN found
  ELSE LET new == {commonBoneNames[r].key : r \in
                     {r \in DOMAIN commonBoneNames : MatchesRole(names[i], r)}}
       IN BindRolesRebinding(names, i + 1,
                    [k \in DOMAIN found \cup new |->
                       IF k \in new THEN i ELSE found[k]])

\* the second traverse of findGLTFBones from object i on: every role that
\* matches the object's name and is not bound yet is bound to the object
RECURSIVE BindRoles(_, _, _)
BindRoles(names, i, found) ==
  IF i > Len(names) THEN found
  ELSE LET new == {commonBoneNames[r].key : r \in
                     {r \in DOMAIN commonBoneNames :
                        /\ commonBoneNames[r].key \notin DOMAIN found
                        /\ MatchesRole(names[i], r)}}
       IN BindRoles(names, i + 1,
                    [k \in DOMAIN found \cup new |->
                       IF k \in DOMAIN found THEN found[k] ELSE i])

\* findGLTFBones(gltf): this.gltfBones, each role bound to the index (in
\* traversal order) of its object
findGLTFBones(names) == BindRoles(names, 1, <<>>)

\* setLimbRotation(bone, startPos, endPos) on the nodes of the loaded model
setLimbRotation(nodes, gltfBones, role, startPos, endPos) ==
  IF role \notin DOMAIN gltfBones THEN nodes
  ELSE LET direction == VSub(endPos, startPos)
       IN IF LongerThanEpsilon(VLength(direction))
          THEN [nodes EXCEPT ![gltfBones[role]] =
                  [@ EXCEPT !.quaternion = SetFromUnitVectors(YAxis, Normalize(direction))]]
          ELSE nodes

\* the calls of setLimbRotation, one after the other
RECURSIVE ApplyRotations(_, _, _, _)
ApplyRotations(nodes, gltfBones, steps, i) ==
  IF i > Len(steps) THEN nodes
  ELSE ApplyRotations(
         setLimbRotation(nodes, gltfBones, steps[i][1], steps[i][2], steps[i][3]),
         gltfBones, steps, i + 1)

\* updateGLTFModelFromPose(landmarks, useWorldCoords)
updateGLTFModelFromPose(self, landmarks, useWorldCoords) ==
  LET P(i) == getPos(Entry(landmarks.items, i), useWorldCoords)
      hipCenter == Lerp(P(LEFT_HIP), P(RIGHT_HIP))
      shoulderCenter == Lerp(P(LEFT_SHOULDER), P(RIGHT_SHOULDER))
      moved == IF self.characterModel # Null
               THEN [self.objects EXCEPT ![self.characterModel].position =
                       Vec(hipCenter.x, hipCenter.y - Unit, hipCenter.z)]
               ELSE self.objects
      steps == << <<"head", shoulderCenter, P(NOSE)>>,
                  <<"spine", hipCenter, shoulderCenter>>,
                  <<"leftShoulder", P(LEFT_SHOULDER), P(LEFT_ELBOW)>>,
                  <<"leftElbow", P(LEFT_ELBOW), P(LEFT_WRIST)>>,
                  <<"rightShoulder", P(RIGHT_SHOULDER), P(RIGHT_ELBOW)>>,
                  <<"rightElbow", P(RIGHT_ELBOW), P(RIGHT_WRIST)>>,
                  <<"leftHip", P(LEFT_HIP), P(LEFT_KNEE)>>,
                  <<"leftKnee", P(LEFT_KNEE), P(LEFT_ANKLE)>>,
                  <<"rightHip", P(RIGHT_HIP), P(RIGHT_KNEE)>>,
                  <<"rightKnee", P(RIGHT_KNEE), P(RIGHT_ANKLE)>> >>
  IN IF DOMAIN self.gltfBones # {}
     THEN [self EXCEPT !.objects =
             [moved EXCEPT ![self.loadedGLTFModel].nodes =
                ApplyRotations(@, self.gltfBones, steps, 1)]]
     ELSE [self EXCEPT !.objects = moved]

\* the visibility the nose must exceed for the head to follow it
HeadVisibilityThreshold == Half

\* the landmark list updateCharacterFromPose works from: the world landmarks
\* when there are any, else the normalized ones
SelectedLandmarks(pose) ==
  IF Length(pose.worldLandmarks) > 0 THEN pose.worldLandmarks ELSE pose.landmarks

\* the two early returns of updateCharacterFromPose
RejectsPoseData(poseData) ==
  \/ poseData.poses.isNull
  \/ Length(poseData.poses) = 0
  \/ Length(SelectedLandmarks(poseData.poses.items[0])) < NumLandmarks

\* updateCharacterFromPose(poseData)
updateCharacterFromPose(self, poseData) ==
  IF RejectsPoseData(poseData) THEN self
  ELSE
    LET pose == poseData.poses.items[0]
        landmarks == SelectedLandmarks(pose)
        useWorldCoords == Length(pose.worldLandmarks) > 0
        P(i) == getPos(Entry(landmarks.items, i), useWorldCoords)
        Has(k) == k \in DOMAIN self.bones
    IN IF self.modelType = "custom" /\ self.loadedGLTFModel # Null
       THEN updateGLTFModelFromPose(self, landmarks, useWorldCoords)
       ELSE
         LET b0 == IF Has("head")
                      /\ VisibilityAbove(Entry(landmarks.items, NOSE), HeadVisibilityThreshold)
                   THEN [self.bones EXCEPT !["head"] = [@ EXCEPT !.position = P(NOSE)]]
                   ELSE self.bones
             hipCenter == Lerp(P(LEFT_HIP), P(RIGHT_HIP))
             \* shoulderCenter.lerp(hipCenter, 0.5) moves shoulderCenter itself,
             \* and torsoDir is taken from the moved vector
             torsoPos == Lerp(Lerp(P(LEFT_SHOULDER), P(RIGHT_SHOULDER)), hipCenter)
             b1 == IF Has("torso")
                   THEN [b0 EXCEPT !["torso"] =
                           [@ EXCEPT !.position = torsoPos,
                                     !.quaternion = SetFromUnitVectors(
                                        YAxis, Normalize(VSub(torsoPos, hipCenter)))]]
                   ELSE b0
             b2 == IF Has("hips")
                   THEN [b1 EXCEPT !["hips"] = [@ EXCEPT !.position = hipCenter]]
                   ELSE b1
             b3 == updateLimb(b2, "leftArm", P(LEFT_SHOULDER), P(LEFT_ELBOW), P(LEFT_WRIST))
             b4 == updateLimb(b3, "rightArm", P(RIGHT_SHOULDER), P(RIGHT_ELBOW), P(RIGHT_WRIST))
             b5 == updateLimb(b4, "leftLeg", P(LEFT_HIP), P(LEFT_KNEE), P(LEFT_ANKLE))
             b6 == updateLimb(b5, "rightLeg", P(RIGHT_HIP), P(RIGHT_KNEE), P(RIGHT_ANKLE))
         IN [self EXCEPT !.bones = b6]

\* the removal of the old model at the top of changeModel and loadGLTFModel
RemoveOldModel(self) ==
  IF self.characterModel # Null
  THEN [self EXCEPT !.scene = @ \ {self.characterModel},
                    !.bones = <<>>,
                    !.gltfBones = <<>>]
  ELSE self

\* changeModel(modelType)
changeModel(self, modelType) ==
  LET s == RemoveOldModel([self EXCEPT !.modelType = modelType])
  IN CASE modelType = "humanoid" -> createProceduralCharacter(s)
       [] modelType = "robot" -> createRobotCharacter(s)
       [] modelType = "stickman" -> createStickman(s)
       [] OTHER -> s

\* loadGLTFModel(modelPath) up to the start of the load
loadGLTFModel(self, modelPath) ==
  [RemoveOldModel(self) EXCEPT !.pendingLoads = Append(@, modelPath)]

\* the success callback of gltfLoader.load, for a parsed file gltf
loadSucceeded(self, gltf) ==
  LET id == self.nextId
  IN [self EXCEPT
        !.modelType = "custom",
        !.loadedGLTFModel = id,
        !.characterModel = id,
        !.characterMesh = id,
        !.objects = (id :> [name |-> gltf.names[1], position |-> gltf.position,
                            nodes |-> [k \in DOMAIN gltf.names |->
                                         [name |-> gltf.names[k],
                                          quaternion |-> IdentityQuaternion]]]) @@ @,
        !.gltfBones = findGLTFBones(gltf.names),
        !.scene = @ \cup {id},
        !.nextId = id + 1]

\* the error callback of gltfLoader.load
loadFailed(self) == createProceduralCharacter(self)

\* the request at place i of the pending loads is over
WithoutLoad(self, i) ==
  [self EXCEPT !.pendingLoads =
     SubSeq(@, 1, i - 1) \o SubSeq(@, i + 1, Len(@))]

\* The files the loader can be asked for: the object names of each scene in
\* traversal order and the position the centering gives it; any other path
\* fails to load
GLTFFiles ==
  ("rigged.glb" :> [names |->
      << <<"S", "c", "e", "n", "e">>,
         <<"A", "r", "m", "a", "t", "u", "r", "e">>,
         <<"m", "i", "x", "a", "m", "o", "r", "i", "g", "H", "i", "p", "s">>,
         <<"m", "i", "x", "a", "m", "o", "r", "i", "g", "S", "p", "i", "n", "e">>,
         <<"m", "i", "x", "a", "m", "o", "r", "i", "g", "N", "e", "c", "k">>,
         <<"m", "i", "x", "a", "m", "o", "r", "i", "g", "H", "e", "a", "d">>,
         <<"m", "i", "x", "a", "m", "o", "r", "i", "g", "L", "e", "f", "t", "A", "r", "m">>,
         <<"m", "i", "x", "a", "m", "o", "r", "i", "g", "L", "e", "f", "t", "F", "o", "r", "e", "A", "r", "m">>,
         <<"m", "i", "x", "a", "m", "o", "r", "i", "g", "L", "e", "f", "t", "U", "p", "L", "e", "g">>,
         <<"m", "i", "x", "a", "m", "o", "r", "i", "g", "L", "e", "f", "t", "L", "e", "g">>,
         <<"B", "o", "d", "y">> >>,
      position |-> Vec(Quarter, 0, 0)])
  @@ ("statue.glb" :> [names |->
      << <<"S", "c", "e", "n", "e">>,
         <<"C", "u", "b", "e">> >>,
      position |-> ZeroVec])
  @@ ("props.glb" :> [names |->
      << <<"r", "o", "o", "t">>,
         <<"H", "E", "A", "D", "_", "t", "o", "p">>,
         <<"h", "e", "a", "d">>,
         <<"L", "_", "H", "a", "n", "d">>,
         <<"s", "h", "o", "u", "l", "d", "e", "r", ".", "L">>,
         <<"C", "h", "e", "s", "t">> >>,
      position |-> ZeroVec])

ModelPaths == DOMAIN GLTFFiles \cup {"missing.glb"}
ModelTypes == {"humanoid", "robot", "stickman"}

\* poseData as the viewers receive it: poses missing, empty, or one pose
\* whose world landmarks (when present) are the other pose of the normalized
\* ones, so that the two lists can be told apart
PoseData(poses) == [poses |-> poses]
OnePose(landmarks, worldLandmarks) ==
  PoseData(List([i \in 0 .. 0 |->
                   [landmarks |-> List(landmarks),
                    worldLandmarks |-> List(worldLandmarks)]]))
OtherPose(pose) == IF pose = "base" THEN "shift" ELSE "base"

\* the cases of the left shoulder and the left elbow in a viewer frame
ViewerCases == {<<"ok", "ok">>, <<"zero", "ok">>, <<"ok", "collapsed">>}

ViewerFrames ==
  {PoseData(NullList), PoseData(List(<<>>))}
  \cup {OnePose(LandmarkList(n, "shift", "ok", "ok"), <<>>) : n \in MalformedLengths}
  \cup {OnePose(LandmarkList(NumLandmarks, "base", "ok", "ok"),
                LandmarkList(n, "shift", "ok", "ok")) :
          n \in {NumLandmarks - 1, NumLandmarks + 1}}
  \cup {OnePose(LandmarkList(NumLandmarks, pose, c[1], c[2]),
                IF world
                THEN LandmarkList(NumLandmarks, OtherPose(pose), c[1], c[2])
                ELSE <<>>) :
          pose \in Poses, c \in ViewerCases, world \in BOOLEAN}

---------------------------------------------------------------------------
(* PoseModelViewer                                                         *)

\* this.boneConnections of createSkeletonStructure, in order
boneConnections ==
  << <<0, 1>>, <<1, 2>>, <<2, 3>>, <<3, 7>>,
     <<0, 4>>, <<4, 5>>, <<5, 6>>, <<6, 8>>,
     <<9, 10>>,
     <<11, 12>>,
     <<11, 13>>, <<13, 15>>,
     <<12, 14>>, <<14, 16>>,
     <<15, 17>>, <<15, 19>>, <<15, 21>>,
     <<16, 18>>, <<16, 20>>, <<16, 22>>,
     <<11, 23>>, <<12, 24>>, <<23, 24>>,
     <<23, 25>>, <<25, 27>>,
     <<24, 26>>, <<26, 28>>,
     <<27, 29>>, <<27, 31>>,
     <<28, 30>>, <<28, 32>> >>

\* material.color of a joint sphere: the hex colour it is created with, or
\* the hue lerp(0, 120, visibility) / 360 given by setHSL
HexColor(hex) == [hex |-> hex]
HueOf(visibility) == [hueNum |-> 120 * visibility, hueDen |-> 360 * Unit]

\* constructor() and init(): 33 hidden joint spheres, no bone cylinder yet
NewPoseModelViewer ==
  [jointSpheres |-> [i \in LandmarkIds |->
                       [position |-> ZeroVec, visible |-> FALSE,
                        color |-> HexColor("00ff88")]],
   boneCylinders |-> <<>>,
   showSkeleton |-> TRUE,
   lastPoseData |-> Null,
   isReceivingData |-> FALSE,
   watchdogAt |-> WatchdogInterval,
   nextId |-> 1]

\* the visibility a landmark must exceed for its sphere to be shown
SphereVisibilityThreshold == Half

\* the body of landmarks.forEach for one landmark that has a sphere
UpdateSphere(landmark, useWorldCoords) ==
  LET x == IF useWorldCoords THEN -landmark.x ELSE (landmark.x - Half) * 2
      y == IF useWorldCoords THEN -landmark.y ELSE -((landmark.y - Half) * 2)
      z == -landmark.z
  IN [position |-> Vec(x, y + Unit, z),
      visible |-> VisibilityAbove(landmark, SphereVisibilityThreshold),
      color |-> HueOf(landmark.visibility)]

\* direction.multiplyScalar(0.5)
HalfVector(d) == Vec(d.x \div 2, d.y \div 2, d.z \div 2)

\* the boneConnections.forEach of updateBones from connection k on: the
\* cylinders made so far, each a fresh mesh
RECURSIVE BuildCylinders(_, _, _, _)
BuildCylinders(jointSpheres, k, made, nextId) ==
  IF k > Len(boneConnections) THEN made
  ELSE LET start == jointSpheres[boneConnections[k][1]]
           end == jointSpheres[boneConnections[k][2]]
           direction == VSub(end.position, start.position)
           length == VLength(direction)
       IN IF start.visible /\ end.visible /\ LongerThanEpsilon(length)
          THEN BuildCylinders(jointSpheres, k + 1,
                 Append(made,
                        [id |-> nextId + Len(made),
                         height |-> length,
                         position |-> VAdd(start.position, HalfVector(direction)),
                         quaternion |-> SetFromUnitVectors(
                                          YAxis, Normalize(HalfVector(direction))),
                         start |-> boneConnections[k][1],
                         end |-> boneConnections[k][2]]),
                 nextId)
          ELSE BuildCylinders(jointSpheres, k + 1, made, nextId)

\* updateBones(): the old cylinders leave the scene, new ones are made
updateBones(self) ==
  IF ~self.showSkeleton THEN [self EXCEPT !.boneCylinders = <<>>]
  ELSE LET made == BuildCylinders(self.jointSpheres, 1, <<>>, self.nextId)
       IN [self EXCEPT !.boneCylinders = made, !.nextId = @ + Len(made)]

\* updateVisualization(poseData)
updateVisualization(self, poseData) ==
  IF poseData.poses.isNull \/ Length(poseData.poses) = 0 THEN self
  ELSE
    LET pose == poseData.poses.items[0]
        landmarks == SelectedLandmarks(pose)
        useWorldCoords == Length(pose.worldLandmarks) > 0
    IN updateBones(
         [self EXCEPT !.jointSpheres =
            [i \in DOMAIN self.jointSpheres |->
               IF i \in DOMAIN landmarks.items
               THEN UpdateSphere(landmarks.items[i], useWorldCoords)
               ELSE self.jointSpheres[i]]])

---------------------------------------------------------------------------
(* PoseExporter and PoseReceiver                                           *)

\* landmarkNames of getLandmarkName (entry k + 1 is the name of index k)
landmarkNames ==
  << "nose", "left_eye_inner", "left_eye", "left_eye_outer",
     "right_eye_inner", "right_eye", "right_eye_outer",
     "left_ear", "right_ear", "mouth_left", "mouth_right",
     "left_shoulder", "right_shoulder", "left_elbow", "right_elbow",
     "left_wrist", "right_wrist", "left_pinky", "right_pinky",
     "left_index", "right_index", "left_thumb", "right_thumb",
     "left_hip", "right_hip", "left_knee", "right_knee",
     "left_ankle", "right_ankle", "left_heel", "right_heel",
     "left_foot_index", "right_foot_index" >>

\* mutant: an index past the table gets the last name of the table
getLandmarkNameClamped(index) ==
  IF (index + 1) \in DOMAIN landmarkNames
  THEN landmarkNames[index + 1]
  ELSE landmarkNames[Len(landmarkNames)]

\* getLandmarkName(index)
getLandmarkName(index) ==
  IF (index + 1) \in DOMAIN landmarkNames
  THEN landmarkNames[index + 1]
  ELSE "landmark_" \o ToString(index)

\* the object one landmark is mapped to; visibility || 1.0 replaces a
\* missing and a zero visibility by 1
ExportedLandmark(landmark, idx) ==
  [id |-> idx, name |-> getLandmarkName(idx),
   x |-> landmark.x, y |-> landmark.y, z |-> landmark.z,
   visibility |-> IF HasVisibility(landmark) /\ landmark.visibility # 0
                  THEN landmark.visibility ELSE Unit]

ExportedList(landmarks) ==
  List([idx \in DOMAIN landmarks |-> ExportedLandmark(landmarks[idx], idx)])

\* result.worldLandmarks?.[index]?.map(...) || []
ExportedWorldList(result, index) ==
  IF result.worldLandmarks.isNull \/ index \notin DOMAIN result.worldLandmarks.items
  THEN List(<<>>)
  ELSE ExportedList(result.worldLandmarks.items[index])

\* mutant: ++this.frameCount, the counter is advanced before it is read
BuildPoseDataPreIncrement(self, result, timestamp, videoInfo) ==
  [timestamp |-> timestamp,
   frameCount |-> self.frameCount + 1,
   poses |-> List([index \in DOMAIN result.landmarks.items |->
                     [personId |-> index,
                      landmarks |-> ExportedList(result.landmarks.items[index]),
                      worldLandmarks |-> ExportedWorldList(result, index)]]),
   videoInfo |-> videoInfo]

\* the poseData object built by exportPose
BuildPoseData(self, result, timestamp, videoInfo) ==
  [timestamp |-> timestamp,
   frameCount |-> self.frameCount,
   poses |-> List([index \in DOMAIN result.landmarks.items |->
                     [personId |-> index,
                      landmarks |-> ExportedList(result.landmarks.items[index]),
                      worldLandmarks |-> ExportedWorldList(result, index)]]),
   videoInfo |-> videoInfo]

\* JSON.stringify(poseData): the text, kept as the JSON value it denotes
\* (every value of poseData is a finite number, a string, an array or an
\* object, which JSON text represents as they are)
JSONStringify(value) == [json |-> value]

\* readyState of a WebSocket; "none" stands for this.websocket === null, and
\* likewise for this.channel
ReadyStates == {"connecting", "open", "closing", "closed"}

\* new PoseExporter(options) in a page where BroadcastChannel is defined or
\* not; the WebSocket constructor may throw, which leaves websocket null
NewPoseExporter(options, hasBroadcastChannel, socketCreated) ==
  [enabled |-> options.enabled,
   channel |-> IF hasBroadcastChannel THEN "open" ELSE "none",
   websocket |-> IF options.websocketUrl /\ socketCreated THEN "connecting" ELSE "none",
   frameCount |-> 0,
   lastExportTime |-> 0]

\* new PoseReceiver(callback) in the exporter's page or in another tab
NewPoseReceiver(samePage, hasBroadcastChannel) ==
  [callback |-> TRUE,
   samePage |-> samePage,
   channel |-> IF hasBroadcastChannel THEN "open" ELSE "none",
   lastReceivedTime |-> 0,
   queue |-> <<>>,         \* channel messages posted to it, not yet delivered
   deliveries |-> <<>>,    \* the message and event deliveries it has received
   invocations |-> <<>>]   \* the arguments its callback was invoked with

\* what has left the exporter: channel messages, socket texts, window events,
\* and the console.error calls
NoTraffic == [posted |-> <<>>, sent |-> <<>>, dispatched |-> <<>>, errors |-> <<>>]

\* mutant: the handlers invoke the callback only for channel messages
HandleDeliveryChannelOnly(self, via, data, time) ==
  LET s == [self EXCEPT !.lastReceivedTime = time]
  IN IF s.callback /\ via = "channel"
     THEN [s EXCEPT !.invocations = Append(@, data)]
     ELSE s

\* channel.onmessage and the 'pose-data' listener: both note the time and
\* invoke the callback with the data of the event
HandleDelivery(self, via, data, time) ==
  LET s == [self EXCEPT !.lastReceivedTime = time]
  IN IF s.callback
     THEN [s EXCEPT !.invocations = Append(@, data)]
     ELSE s

\* the browser delivers a message or an event to the receiver
Deliver(self, via, data, time) ==
  HandleDelivery([self EXCEPT !.deliveries = Append(@, [via |-> via, data |-> data])],
                 via, data, time)

\* mutant: only the frame itself is looked at
SkipsExportIgnoringEnabled(self, result) ==
  result.landmarks.isNull \/ Length(result.landmarks) = 0

\* if (!this.enabled || !result.landmarks || result.landmarks.length === 0) return;
SkipsExport(self, result) ==
  ~self.enabled \/ result.landmarks.isNull \/ Length(result.landmarks) = 0

\* channel.postMessage(poseData) under its guard and try/catch: a closed
\* channel throws, which is logged
PostToChannel(self, traffic, poseData) ==
  CASE self.channel = "none" -> traffic
    [] self.channel = "open" -> [traffic EXCEPT !.posted = Append(@, poseData)]
    [] self.channel = "closed" ->
         [traffic EXCEPT !.errors = Append(@, "PoseExporter: BroadcastChannel error")]

\* mutant: the socket is used whenever there is one; send throws while the
\* socket is connecting and drops the text once it is closing or closed
SendOnWebSocketWhenPresent(self, traffic, poseData) ==
  CASE self.websocket = "none" -> traffic
    [] self.websocket = "open" ->
         [traffic EXCEPT !.sent = Append(@, JSONStringify(poseData))]
    [] self.websocket = "connecting" ->
         [traffic EXCEPT !.errors = Append(@, "PoseExporter: WebSocket send error")]
    [] OTHER -> traffic

\* websocket.send(JSON.stringify(poseData)) under its guard
SendOnWebSocket(self, traffic, poseData) ==
  IF self.websocket # "none" /\ self.websocket = "open"
  THEN [traffic EXCEPT !.sent = Append(@, JSONStringify(poseData))]
  ELSE traffic

\* window.dispatchEvent(new CustomEvent('pose-data', ...)): the listeners of
\* the exporter's page run before dispatchEvent returns
DispatchEvent(receivers, poseData, time) ==
  [r \in DOMAIN receivers |->
     IF receivers[r].samePage
     THEN Deliver(receivers[r], "event", poseData, time)
     ELSE receivers[r]]

\* the channel message is queued for every other open channel of that name
QueueMessage(self, receivers, poseData) ==
  IF self.channel = "open"
  THEN [r \in DOMAIN receivers |->
          IF receivers[r].channel = "open"
          THEN [receivers[r] EXCEPT !.queue = Append(@, poseData)]
          ELSE receivers[r]]
  ELSE receivers

\* exportPose(result, timestamp, videoInfo): the exporter, the traffic and
\* the receivers after the call
exportPose(self, traffic, receivers, result, timestamp, videoInfo, time) ==
  IF SkipsExport(self, result)
  THEN [exporter |-> self, traffic |-> traffic, receivers |-> receivers]
  ELSE LET poseData == BuildPoseData(self, result, timestamp, videoInfo)
           t1 == PostToChannel(self, traffic, poseData)
           t2 == SendOnWebSocket(self, t1, poseData)
       IN [exporter |-> [self EXCEPT !.frameCount = @ + 1,
                                     !.lastExportTime = timestamp],
           traffic |-> [t2 EXCEPT !.dispatched = Append(@, poseData)],
           receivers |-> DispatchEvent(QueueMessage(self, receivers, poseData),
                                       poseData, time)]

\* setEnabled(enabled)
setEnabled(self, enabled) == [self EXCEPT !.enabled = enabled]

\* PoseExporter.destroy(): closes the channel and the socket it has
destroyExporter(self) ==
  [self EXCEPT
     !.channel = IF @ = "none" THEN @ ELSE "closed",
     !.websocket = IF @ \in {"connecting", "open"} THEN "closing" ELSE @]

\* PoseReceiver.destroy(): closes the channel; the window listener stays
destroyReceiver(self) ==
  [self EXCEPT !.channel = IF @ = "none" THEN @ ELSE "closed"]

\* the inputs of exportPose: a detection result with no landmarks field, with
\* no person, with one person of 33 landmarks and no world landmarks, or
\* with two persons, the first of 34 landmarks and world landmarks, the
\* second of 33 landmarks and no world landmarks; the video dimensions
ExportResults ==
  { [landmarks |-> NullList, worldLandmarks |-> NullList],
    [landmarks |-> List(<<>>), worldLandmarks |-> List(<<>>)],
    [landmarks |-> List([p \in 0 .. 0 |->
                           LandmarkList(NumLandmarks, "base", "zero", "noVisibility")]),
     worldLandmarks |-> NullList],
    [landmarks |-> List([p \in 0 .. 1 |->
                           IF p = 0
                           THEN LandmarkList(NumLandmarks + 1, "base", "ok", "ok")
                           ELSE LandmarkList(NumLandmarks, "shift", "ok", "ok")]),
     worldLandmarks |-> List([p \in 0 .. 0 |->
                           LandmarkList(NumLandmarks + 1, "shift", "ok", "zero")])] }
\* the time stamp of a frame is the caller's clock reading, in milliseconds
TimestampAt(time) == 16 + 17 * time
VideoInfos == {[width |-> 640, height |-> 480]}

\* the options a PoseExporter is constructed with
ExporterOptions == [enabled : BOOLEAN, websocketUrl : BOOLEAN]

\* the receivers: one viewer, in the exporter's page or in another tab
ReceiverIds == {"viewer"}

\* the readings of performance.now() go up to MaxTime
MaxTime == 1

\* an uncaught TypeError: a landmark entry that is no object
exportPoseThrows(self, result) ==
  /\ ~SkipsExport(self, result)
  /\ \E p \in DOMAIN result.landmarks.items :
       \E idx \in DOMAIN result.landmarks.items[p] :
         IsNullEntry(result.landmarks.items[p][idx])

---------------------------------------------------------------------------
(* PoseMirrorApp, PoseTracker and UIController                             *)

\* the message getUserMedia rejects with
AcquisitionErrors == {"Permission denied"}

\* new PoseTracker(...): its fields, the video element it drives (srcObject,
\* style.display, onloadedmetadata) and what it has outstanding with the
\* browser and with MediaPipe: the start() invocations that are waiting, the
\* streams whose tracks are live, the Camera objects whose frame loop runs,
\* and the cameras whose pose.send has not delivered its results yet. The
\* Camera utility script may be missing from the page.
NewPoseTracker(cameraLoaded) ==
  [isRunning |-> FALSE, camera |-> Null,
   srcObject |-> Null, display |-> "", onloadedmetadata |-> Null,
   metadataPending |-> FALSE,
   starts |-> {}, streams |-> {}, cameras |-> {}, inFlight |-> {},
   cameraLoaded |-> cameraLoaded, nextId |-> 1]

\* new PoseMirrorApp() after init(): isRunning, the texts the status element
\* has shown, and the disabled flags of the two buttons
NewPoseMirrorApp(stopDisabled) ==
  [isRunning |-> FALSE,
   shown |-> << "Ready. Click \"Start Camera\" to begin." >>,
   startDisabled |-> FALSE, stopDisabled |-> stopDisabled]

\* UIController.updateStatus(message)
updateStatus(self, message) == [self EXCEPT !.shown = Append(@, message)]

\* the text of the status element
StatusText(self) == self.shown[Len(self.shown)]

\* UIController.setCameraRunning(running)
setCameraRunning(self, running) ==
  [self EXCEPT !.startDisabled = running, !.stopDisabled = ~running]

\* PoseTracker.start() up to await getUserMedia(...): one more start waits
\* for the stream
StartRequested(self) ==
  [self EXCEPT !.starts = @ \cup {[id |-> self.nextId, stage |-> "getUserMedia"]},
               !.nextId = @ + 1]

\* start() from the stream to the await of the metadata promise: the stream
\* becomes the video's srcObject, and onloadedmetadata now resolves the
\* promise of this start
StreamAcquired(self, id) ==
  [self EXCEPT !.streams = @ \cup {self.nextId},
               !.srcObject = self.nextId,
               !.display = "block",
               !.onloadedmetadata = id,
               !.metadataPending = TRUE,
               !.starts = (@ \ {[id |-> id, stage |-> "getUserMedia"]})
                          \cup {[id |-> id, stage |-> "metadata"]},
               !.nextId = @ + 1]

\* start() after the metadata promise, with the Camera utility loaded: a new
\* Camera is started and isRunning is set
CameraStarted(self, id) ==
  [self EXCEPT !.camera = self.nextId,
               !.cameras = @ \cup {self.nextId},
               !.isRunning = TRUE,
               !.starts = @ \ {[id |-> id, stage |-> "metadata"]},
               !.nextId = @ + 1]

\* start() leaves through its catch: throw new Error('Could not access camera: ...')
StartRejected(self, id) ==
  [self EXCEPT !.starts = {s \in @ : s.id # id}]

CameraError(message) == "Could not access camera: " \o message

\* PoseTracker.stop()
stop(self) ==
  [self EXCEPT !.cameras = @ \ {self.camera},
               !.camera = Null,
               !.streams = @ \ {self.srcObject},
               !.srcObject = Null,
               !.metadataPending = FALSE,
               !.display = "none",
               !.isRunning = FALSE]

\* startTracking() after await this.poseTracker.start() has resolved
StartSucceeded(self) ==
  updateStatus(setCameraRunning([self EXCEPT !.isRunning = TRUE], TRUE),
               "Camera active. Pose detection running.")

\* mutant: isRunning is set before the outcome of start() is known
StartFailedMarkedRunning(self, message) ==
  updateStatus([self EXCEPT !.isRunning = TRUE], "Error starting camera: " \o message)

\* the catch of startTracking(), for the error start() rejected with
StartFailed(self, message) ==
  updateStatus(self, "Error starting camera: " \o message)

\* stopTracking() past its guard, after this.poseTracker.stop()
stopTracking(self) ==
  updateStatus(setCameraRunning([self EXCEPT !.isRunning = FALSE], FALSE),
               "Camera stopped.")

\* onPoseDetected(results): the skeleton renderer after the callback
onPoseDetected(self, renderer, results) ==
  IF ~results.poseLandmarks.isNull
  THEN updatePose(renderer, results.poseLandmarks)
  ELSE renderer

\* the results MediaPipe delivers: nobody detected (no poseLandmarks), or
\* the 33 landmarks of a person
PoseResults ==
  { [poseLandmarks |-> NullList],
    [poseLandmarks |-> List(LandmarkList(NumLandmarks, "base", "ok", "ok"))],
    [poseLandmarks |-> List(LandmarkList(NumLandmarks, "shift", "ok", "collapsed"))] }

---------------------------------------------------------------------------
(* The receiving status of the two viewers                                 *)

\* PoseModelViewer.updateStatus(receiving)
updateStatusOfModelViewer(self, receiving) ==
  [self EXCEPT !.isReceivingData = receiving]

\* CharacterPoseViewer.updateStatus(receiving): the class of the indicator
\* element ('Receiving pose data' / 'Waiting for pose data...')
updateStatusOfCharacterViewer(self, receiving) ==
  [self EXCEPT !.indicator = IF receiving THEN "connected" ELSE "disconnected"]

\* the PoseReceiver callback of PoseModelViewer.setupPoseReceiver
onPoseDataOfModelViewer(self, poseData) ==
  updateStatusOfModelViewer(
    updateVisualization([self EXCEPT !.lastPoseData = poseData], poseData), TRUE)

\* the PoseReceiver callback of CharacterPoseViewer.setupPoseReceiver
onPoseDataOfCharacterViewer(self, poseData) ==
  updateStatusOfCharacterViewer(
    updateCharacterFromPose([self EXCEPT !.lastPoseData = poseData,
                                         !.currentPose = poseData], poseData), TRUE)

\* performance.now() - (this.poseReceiver?.lastReceivedTime || 0)
timeSinceLastPose(receiver, time) == time - receiver.lastReceivedTime

\* mutant: the status is reset only after two seconds without a frame
StatusExpiredAfterTwoPeriods(receiver, time) ==
  timeSinceLastPose(receiver, time) > 2 * StatusTimeout

\* if (timeSinceLastPose > 1000)
StatusExpired(receiver, time) ==
  timeSinceLastPose(receiver, time) > StatusTimeout

\* the setInterval callback of PoseModelViewer.setupEventListeners, and the
\* timer set for its next run
checkReceivingOfModelViewer(self, receiver, time) ==
  [(IF StatusExpired(receiver, time)
    THEN updateStatusOfModelViewer(self, FALSE)
    ELSE self) EXCEPT !.watchdogAt = @ + WatchdogInterval]

\* the setInterval callback of CharacterPoseViewer.setupEventListeners, and
\* the timer set for its next run
checkReceivingOfCharacterViewer(self, receiver, time) ==
  [(IF StatusExpired(receiver, time)
    THEN updateStatusOfCharacterViewer(self, FALSE)
    ELSE self) EXCEPT !.watchdogAt = @ + WatchdogInterval]

\* the frames the viewers are sent while their status is watched: one
\* without a pose, one with world landmarks, one with normalized ones only
WatchdogFrames ==
  { PoseData(List(<<>>)),
    OnePose(LandmarkList(NumLandmarks, "base", "ok", "ok"),
            LandmarkList(NumLandmarks, "shift", "ok", "ok")),
    OnePose(LandmarkList(NumLandmarks, "shift", "zero", "ok"), <<>>) }

\* the clock of the viewers' page goes in steps of ClockStep milliseconds up
\* to MaxClock
ClockStep == 500
MaxClock == 4000

---------------------------------------------------------------------------
(* The calls                                                               *)

\* a call may be made while the behaviour has calls left
CanCall == calls < MaxCalls

Called(c) ==
  /\ calls' = calls + 1
  /\ call' = c

\* the bones whose two endpoint landmarks a list puts at one position
CollapsedBones(landmarks) ==
  {k \in BoneIds :
     LET s == Entry(landmarks.items, Connections[k][1])
         e == Entry(landmarks.items, Connections[k][2])
     IN /\ ~IsNullEntry(s) /\ ~IsNullEntry(e)
        /\ <<s.x, s.y, s.z>> = <<e.x, e.y, e.z>>}

\* the bones that the call before, if it was updatePose on a list of 33
\* entries, was given with both endpoints at one position
CollapsedBefore ==
  IF call.op = "updatePose" /\ ~RejectsLandmarks(call.landmarks)
  THEN CollapsedBones(call.landmarks)
  ELSE {}

\* the list of the most recent updatePose call that got past the guard of
\* updatePose; the null list while there has been none
LastAccepted ==
  IF "lastFrame" \in DOMAIN call THEN call.lastFrame ELSE NullList

SkUpdatePose ==
  /\ CanCall
  /\ \E landmarks \in SkFrames :
       /\ skeletonRenderer' = updatePose(skeletonRenderer, landmarks)
       /\ Called([op |-> "updatePose", landmarks |-> landmarks,
                  threw |-> updatePoseThrows(skeletonRenderer, landmarks),
                  collapsedBefore |-> CollapsedBefore,
                  lastFrame |-> IF RejectsLandmarks(landmarks)
                                THEN LastAccepted ELSE landmarks])
  /\ UNCHANGED OtherThanSkeleton

SkSetScale ==
  /\ CanCall
  /\ \E s \in ScaleValues :
       /\ skeletonRenderer' = setScale(skeletonRenderer, s)
       /\ Called([op |-> "setScale", scale |-> s, threw |-> FALSE,
                  lastFrame |-> LastAccepted])
  /\ UNCHANGED OtherThanSkeleton

SkSetBoneThickness ==
  /\ CanCall
  /\ \E t \in ThicknessValues :
       /\ skeletonRenderer' = setBoneThickness(skeletonRenderer, t)
       /\ Called([op |-> "setBoneThickness", thickness |-> t, threw |-> FALSE,
                  lastFrame |-> LastAccepted])
  /\ UNCHANGED OtherThanSkeleton

SkSetShowJoints ==
  /\ CanCall
  /\ \E b \in BOOLEAN :
       /\ skeletonRenderer' = setShowJoints(skeletonRenderer, b)
       /\ Called([op |-> "setShowJoints", show |-> b, threw |-> FALSE,
                  lastFrame |-> LastAccepted])
  /\ UNCHANGED OtherThanSkeleton

SkSetShowBones ==
  /\ CanCall
  /\ \E b \in BOOLEAN :
       /\ skeletonRenderer' = setShowBones(skeletonRenderer, b)
       /\ Called([op |-> "setShowBones", show |-> b, threw |-> FALSE,
                  lastFrame |-> LastAccepted])
  /\ UNCHANGED OtherThanSkeleton

NoCall == [op |-> "none", threw |-> FALSE]

\* every program freshly constructed, no call made yet
Init ==
  /\ skeletonRenderer = NewSkeletonRenderer
  /\ characterViewer = NewCharacterPoseViewer
  /\ modelViewer = NewPoseModelViewer
  /\ poseExporter = NewPoseExporter([enabled |-> TRUE, websocketUrl |-> FALSE], TRUE, FALSE)
  /\ poseReceivers = [r \in ReceiverIds |-> NewPoseReceiver(FALSE, TRUE)]
  /\ outbox = NoTraffic
  /\ now = 0
  /\ poseMirrorApp = NewPoseMirrorApp(TRUE)
  /\ poseTracker = NewPoseTracker(TRUE)
  /\ call = NoCall
  /\ calls = 0

SkInit == Init

SkNext ==
  \/ SkUpdatePose
  \/ SkSetScale
  \/ SkSetBoneThickness
  \/ SkSetShowJoints
  \/ SkSetShowBones

SpecSkeleton == SkInit /\ [][SkNext]_vars

---------------------------------------------------------------------------
(* CharacterPoseViewer: the callbacks that drive it                        *)

\* the PoseReceiver callback of setupPoseReceiver
ChPoseReceived ==
  /\ CanCall
  /\ \E poseData \in ViewerFrames :
       /\ characterViewer' = onPoseDataOfCharacterViewer(characterViewer, poseData)
       /\ Called([op |-> "updateCharacterFromPose", poseData |-> poseData])
  /\ UNCHANGED OtherThanCharacter

\* the change handler of the model-choice select
ChModelChoice ==
  /\ CanCall
  /\ \E modelType \in ModelTypes \cup {"custom"} :
       /\ characterViewer' = IF modelType # "custom"
                             THEN changeModel(characterViewer, modelType)
                             ELSE characterViewer
       /\ Called([op |-> "changeModel", modelType |-> modelType])
  /\ UNCHANGED OtherThanCharacter

\* the click handler of the load-model button, with a path typed in
ChLoadModel ==
  /\ CanCall
  /\ \E modelPath \in ModelPaths :
       /\ characterViewer' = loadGLTFModel(characterViewer, modelPath)
       /\ Called([op |-> "loadGLTFModel", modelPath |-> modelPath])
  /\ UNCHANGED OtherThanCharacter

\* the loader calls the success callback of one of the pending loads
ChLoadSucceeded ==
  /\ \E i \in DOMAIN characterViewer.pendingLoads :
       LET modelPath == characterViewer.pendingLoads[i]
       IN /\ modelPath \in DOMAIN GLTFFiles
          /\ characterViewer' =
               loadSucceeded(WithoutLoad(characterViewer, i), GLTFFiles[modelPath])
          /\ call' = [op |-> "loadSucceeded", modelPath |-> modelPath]
  /\ UNCHANGED calls
  /\ UNCHANGED OtherThanCharacter

\* the loader calls the error callback of one of the pending loads
ChLoadFailed ==
  /\ \E i \in DOMAIN characterViewer.pendingLoads :
       LET modelPath == characterViewer.pendingLoads[i]
       IN /\ modelPath \notin DOMAIN GLTFFiles
          /\ characterViewer' = loadFailed(WithoutLoad(characterViewer, i))
          /\ call' = [op |-> "loadFailed", modelPath |-> modelPath]
  /\ UNCHANGED calls
  /\ UNCHANGED OtherThanCharacter

ChInit == Init

ChNext ==
  \/ ChPoseReceived
  \/ ChModelChoice
  \/ ChLoadModel
  \/ ChLoadSucceeded
  \/ ChLoadFailed

SpecCharacter == ChInit /\ [][ChNext]_vars

---------------------------------------------------------------------------
(* PoseModelViewer: the callbacks that drive it                            *)

\* the PoseReceiver callback of setupPoseReceiver
MvPoseReceived ==
  /\ CanCall
  /\ \E poseData \in ViewerFrames :
       /\ modelViewer' = onPoseDataOfModelViewer(modelViewer, poseData)
       /\ Called([op |-> "updateVisualization", poseData |-> poseData])
  /\ UNCHANGED OtherThanModelViewer

\* the click handler of the toggle-skeleton button
MvToggleSkeleton ==
  /\ CanCall
  /\ modelViewer' = updateBones([modelViewer EXCEPT !.showSkeleton = ~@])
  /\ Called([op |-> "toggleSkeleton"])
  /\ UNCHANGED OtherThanModelViewer

MvInit == Init

MvNext ==
  \/ MvPoseReceived
  \/ MvToggleSkeleton

SpecModelViewer == MvInit /\ [][MvNext]_vars

---------------------------------------------------------------------------
(* PoseExporter and PoseReceiver: calls, deliveries and socket events      *)

RlExportPose ==
  /\ CanCall
  /\ \E result \in ExportResults, videoInfo \in VideoInfos :
       LET timestamp == TimestampAt(now)
           out == exportPose(poseExporter, outbox, poseReceivers,
                             result, timestamp, videoInfo, now)
       IN /\ poseExporter' = out.exporter
          /\ outbox' = out.traffic
          /\ poseReceivers' = out.receivers
          /\ Called([op |-> "exportPose", result |-> result,
                     timestamp |-> timestamp, videoInfo |-> videoInfo,
                     threw |-> exportPoseThrows(poseExporter, result)])
  /\ UNCHANGED now
  /\ UNCHANGED OtherThanRelay

RlSetEnabled ==
  /\ CanCall
  /\ \E enabled \in BOOLEAN :
       /\ poseExporter' = setEnabled(poseExporter, enabled)
       /\ Called([op |-> "setEnabled", enabled |-> enabled, threw |-> FALSE])
  /\ UNCHANGED <<poseReceivers, outbox, now>>
  /\ UNCHANGED OtherThanRelay

RlDestroyExporter ==
  /\ CanCall
  /\ poseExporter' = destroyExporter(poseExporter)
  /\ Called([op |-> "PoseExporter.destroy", threw |-> FALSE])
  /\ UNCHANGED <<poseReceivers, outbox, now>>
  /\ UNCHANGED OtherThanRelay

RlDestroyReceiver ==
  /\ CanCall
  /\ \E r \in ReceiverIds :
       /\ poseReceivers' = [poseReceivers EXCEPT ![r] = destroyReceiver(@)]
       /\ Called([op |-> "PoseReceiver.destroy", receiver |-> r, threw |-> FALSE])
  /\ UNCHANGED <<poseExporter, outbox, now>>
  /\ UNCHANGED OtherThanRelay

\* the browser takes the oldest queued channel message of a receiver: it is
\* delivered to an open channel and dropped by a closed one
RlChannelMessage ==
  /\ \E r \in ReceiverIds :
       /\ poseReceivers[r].queue # <<>>
       /\ LET data == Head(poseReceivers[r].queue)
              rest == [poseReceivers[r] EXCEPT !.queue = Tail(@)]
          IN poseReceivers' =
               [poseReceivers EXCEPT ![r] =
                  IF rest.channel = "open"
                  THEN Deliver(rest, "channel", data, now)
                  ELSE rest]
       /\ UNCHANGED <<call, calls>>
  /\ UNCHANGED <<poseExporter, outbox, now>>
  /\ UNCHANGED OtherThanRelay

\* the socket connects: onopen only logs
RlSocketOpened ==
  /\ poseExporter.websocket = "connecting"
  /\ poseExporter' = [poseExporter EXCEPT !.websocket = "open"]
  /\ UNCHANGED <<call, calls>>
  /\ UNCHANGED <<poseReceivers, outbox, now>>
  /\ UNCHANGED OtherThanRelay

\* the socket fails or is closed: onerror and onclose only log
RlSocketClosed ==
  /\ poseExporter.websocket \in {"connecting", "open", "closing"}
  /\ poseExporter' = [poseExporter EXCEPT !.websocket = "closed"]
  /\ UNCHANGED <<call, calls>>
  /\ UNCHANGED <<poseReceivers, outbox, now>>
  /\ UNCHANGED OtherThanRelay

\* time passes
RlTick ==
  /\ now < MaxTime
  /\ now' = now + 1
  /\ UNCHANGED <<call, calls>>
  /\ UNCHANGED <<poseExporter, poseReceivers, outbox>>
  /\ UNCHANGED OtherThanRelay

\* the tracking page and a viewer in it or in another tab, in a browser with
\* or without BroadcastChannel, the exporter constructed with any options
RlInit ==
  /\ skeletonRenderer = NewSkeletonRenderer
  /\ characterViewer = NewCharacterPoseViewer
  /\ modelViewer = NewPoseModelViewer
  /\ \E options \in ExporterOptions, hasBroadcastChannel \in BOOLEAN,
        socketCreated \in BOOLEAN, samePage \in BOOLEAN :
       /\ poseExporter = NewPoseExporter(options, hasBroadcastChannel, socketCreated)
       /\ poseReceivers = [r \in ReceiverIds |->
                             NewPoseReceiver(samePage, hasBroadcastChannel)]
  /\ outbox = NoTraffic
  /\ now = 0
  /\ poseMirrorApp = NewPoseMirrorApp(TRUE)
  /\ poseTracker = NewPoseTracker(TRUE)
  /\ call = NoCall
  /\ calls = 0

RlNext ==
  \/ RlExportPose
  \/ RlSetEnabled
  \/ RlDestroyExporter
  \/ RlDestroyReceiver
  \/ RlChannelMessage
  \/ RlSocketOpened
  \/ RlSocketClosed
  \/ RlTick

SpecRelay == RlInit /\ [][RlNext]_vars

---------------------------------------------------------------------------
(* PoseMirrorApp: the two buttons, and the events of the browser and of    *)
(* MediaPipe that continue what they started                               *)

\* the start() invocation the onloadedmetadata handler resolves, if it is
\* still waiting for it
WaitingForMetadata(self) ==
  {s \in self.starts : s.id = self.onloadedmetadata /\ s.stage = "metadata"}

\* click on startCameraBtn: startTracking() up to its await
MrStartTracking ==
  /\ CanCall
  /\ ~poseMirrorApp.startDisabled
  /\ IF poseMirrorApp.isRunning
     THEN UNCHANGED <<poseMirrorApp, poseTracker>>
     ELSE IF poseTracker.isRunning
     THEN /\ poseMirrorApp' =
               StartSucceeded(updateStatus(poseMirrorApp, "Starting camera..."))
          /\ UNCHANGED poseTracker
     ELSE /\ poseMirrorApp' = updateStatus(poseMirrorApp, "Starting camera...")
          /\ poseTracker' = StartRequested(poseTracker)
  /\ Called([op |-> "startTracking", threw |-> FALSE])
  /\ UNCHANGED skeletonRenderer
  /\ UNCHANGED OtherThanMirror

\* click on stopCameraBtn: stopTracking()
MrStopTracking ==
  /\ CanCall
  /\ ~poseMirrorApp.stopDisabled
  /\ IF ~poseMirrorApp.isRunning
     THEN UNCHANGED <<poseMirrorApp, poseTracker>>
     ELSE /\ poseTracker' = stop(poseTracker)
          /\ poseMirrorApp' = stopTracking(poseMirrorApp)
  /\ Called([op |-> "stopTracking", threw |-> FALSE])
  /\ UNCHANGED skeletonRenderer
  /\ UNCHANGED OtherThanMirror

\* getUserMedia resolves for a waiting start(), which runs on to the await
\* of the metadata promise
MrGetUserMediaResolved ==
  /\ \E s \in poseTracker.starts :
       /\ s.stage = "getUserMedia"
       /\ poseTracker' = StreamAcquired(poseTracker, s.id)
       /\ call' = [op |-> "getUserMediaResolved", start |-> s.id]
  /\ UNCHANGED <<poseMirrorApp, skeletonRenderer, calls>>
  /\ UNCHANGED OtherThanMirror

\* getUserMedia rejects for a waiting start(): start() rejects and
\* startTracking() runs its catch; the promise of startTracking() resolves
MrGetUserMediaRejected ==
  /\ \E s \in poseTracker.starts, message \in AcquisitionErrors :
       /\ s.stage = "getUserMedia"
       /\ poseTracker' = StartRejected(poseTracker, s.id)
       /\ poseMirrorApp' = StartFailed(poseMirrorApp, CameraError(message))
       /\ call' = [op |-> "getUserMediaRejected", start |-> s.id,
                   message |-> message, threw |-> FALSE]
  /\ UNCHANGED <<skeletonRenderer, calls>>
  /\ UNCHANGED OtherThanMirror

\* the video element fires loadedmetadata for its srcObject: the handler
\* resolves the promise of the start() that set it, which runs to its end,
\* and startTracking() runs on after its await
MrLoadedMetadata ==
  /\ poseTracker.metadataPending
  /\ LET fired == [poseTracker EXCEPT !.metadataPending = FALSE]
     IN IF WaitingForMetadata(poseTracker) = {}
        THEN /\ poseTracker' = fired
             /\ UNCHANGED poseMirrorApp
        ELSE IF poseTracker.cameraLoaded
        THEN /\ poseTracker' = CameraStarted(fired, poseTracker.onloadedmetadata)
             /\ poseMirrorApp' = StartSucceeded(poseMirrorApp)
        ELSE /\ poseTracker' = StartRejected(fired, poseTracker.onloadedmetadata)
             /\ poseMirrorApp' =
                  StartFailed(poseMirrorApp,
                              CameraError("MediaPipe Camera utility not loaded"))
  /\ call' = [op |-> "loadedmetadata", start |-> poseTracker.onloadedmetadata]
  /\ UNCHANGED <<skeletonRenderer, calls>>
  /\ UNCHANGED OtherThanMirror

\* the frame loop of a running Camera calls onFrame, which sends the video
\* image to MediaPipe and awaits it
MrCameraFrame ==
  /\ \E cam \in poseTracker.cameras \ poseTracker.inFlight :
       /\ poseTracker' = [poseTracker EXCEPT !.inFlight = @ \cup {cam}]
       /\ call' = [op |-> "onFrame", camera |-> cam]
  /\ UNCHANGED <<poseMirrorApp, skeletonRenderer, calls>>
  /\ UNCHANGED OtherThanMirror

\* MediaPipe delivers the results of a request to the onResults listener,
\* which calls onPoseDetected
MrPoseResults ==
  /\ \E cam \in poseTracker.inFlight, results \in PoseResults :
       /\ poseTracker' = [poseTracker EXCEPT !.inFlight = @ \ {cam}]
       /\ skeletonRenderer' = onPoseDetected(poseMirrorApp, skeletonRenderer, results)
       /\ call' = [op |-> "onPoseDetected", camera |-> cam, results |-> results,
                   updatePose |-> ~results.poseLandmarks.isNull]
  /\ UNCHANGED <<poseMirrorApp, calls>>
  /\ UNCHANGED OtherThanMirror

\* the page after load: the stop button as the page declares it, the Camera
\* utility loaded or not
MrInit ==
  /\ skeletonRenderer = NewSkeletonRenderer
  /\ characterViewer = NewCharacterPoseViewer
  /\ modelViewer = NewPoseModelViewer
  /\ poseExporter = NewPoseExporter([enabled |-> TRUE, websocketUrl |-> FALSE], TRUE, FALSE)
  /\ poseReceivers = [r \in ReceiverIds |-> NewPoseReceiver(FALSE, TRUE)]
  /\ outbox = NoTraffic
  /\ now = 0
  /\ \E stopDisabled \in BOOLEAN : poseMirrorApp = NewPoseMirrorApp(stopDisabled)
  /\ \E cameraLoaded \in BOOLEAN : poseTracker = NewPoseTracker(cameraLoaded)
  /\ call = NoCall
  /\ calls = 0

MrNext ==
  \/ MrStartTracking
  \/ MrStopTracking
  \/ MrGetUserMediaResolved
  \/ MrGetUserMediaRejected
  \/ MrLoadedMetadata
  \/ MrCameraFrame
  \/ MrPoseResults

SpecMirror == MrInit /\ [][MrNext]_vars

---------------------------------------------------------------------------
(* The two viewers, each with its PoseReceiver and its status check, as    *)
(* time passes                                                             *)

\* the viewers whose receiving status is watched
Viewers == {"modelViewer", "characterViewer"}

\* the time the interval timer of a viewer fires next
WatchdogAt(v) ==
  IF v = "modelViewer" THEN modelViewer.watchdogAt ELSE characterViewer.watchdogAt

\* the viewer shows the connected / receiving status
Receiving(v) ==
  IF v = "modelViewer" THEN modelViewer.isReceivingData
  ELSE characterViewer.indicator = "connected"

\* a frame reaches the PoseReceiver of a viewer, which notes the time and
\* invokes the viewer's callback
WdPoseReceived ==
  /\ CanCall
  /\ \E v \in Viewers, poseData \in WatchdogFrames :
       /\ poseReceivers' =
            [poseReceivers EXCEPT ![v] = Deliver(@, "channel", poseData, now)]
       /\ IF v = "modelViewer"
          THEN /\ modelViewer' = onPoseDataOfModelViewer(modelViewer, poseData)
               /\ UNCHANGED characterViewer
          ELSE /\ characterViewer' = onPoseDataOfCharacterViewer(characterViewer, poseData)
               /\ UNCHANGED modelViewer
       /\ Called([op |-> "onPoseData", viewer |-> v, poseData |-> poseData])
  /\ UNCHANGED <<poseExporter, outbox, now, skeletonRenderer, Mirror>>

\* the interval timer of the model viewer fires
WdCheckModelViewer ==
  /\ modelViewer.watchdogAt <= now
  /\ modelViewer' =
       checkReceivingOfModelViewer(modelViewer, poseReceivers["modelViewer"], now)
  /\ call' = [op |-> "checkReceiving", viewer |-> "modelViewer"]
  /\ UNCHANGED <<characterViewer, calls>>
  /\ UNCHANGED <<Relay, skeletonRenderer, Mirror>>

\* the interval timer of the character viewer fires
WdCheckCharacterViewer ==
  /\ characterViewer.watchdogAt <= now
  /\ characterViewer' =
       checkReceivingOfCharacterViewer(characterViewer,
                                       poseReceivers["characterViewer"], now)
  /\ call' = [op |-> "checkReceiving", viewer |-> "characterViewer"]
  /\ UNCHANGED <<modelViewer, calls>>
  /\ UNCHANGED <<Relay, skeletonRenderer, Mirror>>

\* time passes, once the timers that are due have fired
WdTick ==
  /\ now < MaxClock
  /\ \A v \in Viewers : WatchdogAt(v) > now
  /\ now' = now + ClockStep
  /\ call' = [op |-> "tick"]
  /\ UNCHANGED <<modelViewer, characterViewer, calls>>
  /\ UNCHANGED <<poseExporter, poseReceivers, outbox, skeletonRenderer, Mirror>>

\* the two viewer pages right after their constructors, at time 0
WdInit ==
  /\ skeletonRenderer = NewSkeletonRenderer
  /\ characterViewer = NewCharacterPoseViewer
  /\ modelViewer = NewPoseModelViewer
  /\ poseExporter = NewPoseExporter([enabled |-> TRUE, websocketUrl |-> FALSE], TRUE, FALSE)
  /\ poseReceivers = [v \in Viewers |-> NewPoseReceiver(FALSE, TRUE)]
  /\ outbox = NoTraffic
  /\ now = 0
  /\ poseMirrorApp = NewPoseMirrorApp(TRUE)
  /\ poseTracker = NewPoseTracker(TRUE)
  /\ call = NoCall
  /\ calls = 0

WdNext ==
  \/ WdPoseReceived
  \/ WdCheckModelViewer
  \/ WdCheckCharacterViewer
  \/ WdTick

SpecWatchdog == WdInit /\ [][WdNext]_vars

---------------------------------------------------------------------------
(* Claims about SkeletonRenderer                                           *)

\* the most recent call was updatePose on a list of exactly 33 entries
SkValidCall ==
  /\ call.op = "updatePose"
  /\ ~call.landmarks.isNull
  /\ Length(call.landmarks) = NumLandmarks

\* entry i of the list of the most recent updatePose call
SkLandmark(i) == call.landmarks.items[i]

\* a landmark whose visibility is not above 0.3: 0.3 or less, missing, or no entry
NotAboveThreshold(lm) ==
  IsNullEntry(lm) \/ ~HasVisibility(lm) \/ lm.visibility <= 3 * (Unit \div 10)

\* a landmark with visibility 1
FullyVisible(lm) ==
  ~IsNullEntry(lm) /\ HasVisibility(lm) /\ lm.visibility = Unit

\* the centered, scaled position the frame gives a landmark
CenteredPosition(lm, scale) ==
  Vec(Mul((lm.x - Half) * 2, scale), Mul((Half - lm.y) * 2, scale),
      Mul((-lm.z) * 2, scale))

\* C1: updatePose with a null list or a list whose length is not 33 leaves
\* every joint and every bone as it was and raises no error.
C1_MalformedListIsNoOp ==
  [][ (/\ call'.op = "updatePose"
       /\ (call'.landmarks.isNull \/ Length(call'.landmarks) # 33))
      => /\ skeletonRenderer'.joints = skeletonRenderer.joints
         /\ skeletonRenderer'.bones = skeletonRenderer.bones
         /\ ~call'.threw ]_vars

\* C1 witness: a list one entry too long was passed while a posed bone was shown
C1_Witness ==
  /\ call.op = "updatePose"
  /\ ~call.landmarks.isNull
  /\ Length(call.landmarks) = 34
  /\ \E k \in BoneIds :
       /\ skeletonRenderer.bones[k].visible
       /\ skeletonRenderer.bones[k].position # ZeroVec

\* C4: after updatePose on a valid frame, a bone with an endpoint landmark
\* whose visibility is not above 0.3 is hidden, whatever showJoints and
\* showBones are.
C4_LowEndpointHidesBone ==
  SkValidCall =>
    \A k \in BoneIds :
      (\/ NotAboveThreshold(SkLandmark(Connections[k][1]))
       \/ NotAboveThreshold(SkLandmark(Connections[k][2])))
      => ~skeletonRenderer.bones[k].visible

\* C4 witness: with joints and bones both displayed, a valid frame hid a bone
\* for an endpoint exactly at the threshold while another bone is shown
C4_Witness ==
  /\ SkValidCall
  /\ skeletonRenderer.showJoints /\ skeletonRenderer.showBones
  /\ \E k \in BoneIds :
       /\ HasVisibility(SkLandmark(Connections[k][2]))
       /\ SkLandmark(Connections[k][2]).visibility = 3 * (Unit \div 10)
       /\ ~skeletonRenderer.bones[k].visible
  /\ \E k \in BoneIds : skeletonRenderer.bones[k].visible

\* C5: after updatePose on a valid frame with showBones on and scale > 0, a
\* bone whose endpoints both have visibility 1 and different coordinates is
\* visible.
C5_ConfidentDistinctBoneShown ==
  (SkValidCall /\ skeletonRenderer.showBones /\ skeletonRenderer.scale > 0) =>
    \A k \in BoneIds :
      LET s == SkLandmark(Connections[k][1])
          e == SkLandmark(Connections[k][2])
      IN (/\ FullyVisible(s) /\ FullyVisible(e)
          /\ <<s.x, s.y, s.z>> # <<e.x, e.y, e.z>>)
         => skeletonRenderer.bones[k].visible

\* C7: after updatePose on a valid frame no error was raised and each of the
\* 18 bones is either hidden or visible with the midpoint, length and
\* rotation that this frame's endpoints give.
C7_OneDecisionPerBone ==
  SkValidCall =>
    /\ ~call.threw
    /\ Cardinality(DOMAIN skeletonRenderer.bones) = 18
    /\ \A k \in DOMAIN skeletonRenderer.bones :
         LET bone == skeletonRenderer.bones[k]
             s == SkLandmark(Connections[k][1])
             e == SkLandmark(Connections[k][2])
         IN \/ ~bone.visible
            \/ /\ ~IsNullEntry(s) /\ ~IsNullEntry(e)
               /\ LET ps == CenteredPosition(s, skeletonRenderer.scale)
                      pe == CenteredPosition(e, skeletonRenderer.scale)
                  IN /\ bone.position.x * 2 = ps.x + pe.x
                     /\ bone.position.y * 2 = ps.y + pe.y
                     /\ bone.position.z * 2 = ps.z + pe.z
                     /\ bone.scaleY = VLength(VSub(pe, ps))
                     /\ bone.quaternion =
                          SetFromUnitVectors(YAxis, Normalize(VSub(pe, ps)))

\* C7 witness: a second valid frame, at another scale, left one bone shown
\* and one bone hidden
C7_Witness ==
  /\ SkValidCall
  /\ calls >= 2
  /\ skeletonRenderer.scale # Unit
  /\ \E k \in BoneIds : skeletonRenderer.bones[k].visible
  /\ \E k \in BoneIds :
       ~skeletonRenderer.bones[k].visible
       /\ skeletonRenderer.bones[k].position # ZeroVec

---------------------------------------------------------------------------
(* Claims about CharacterPoseViewer                                        *)

\* the call record is an updateCharacterFromPose call that carries a pose
ChCallWithPose(c) ==
  /\ c.op = "updateCharacterFromPose"
  /\ ~c.poseData.poses.isNull
  /\ Length(c.poseData.poses) > 0

\* the selected landmark list of such a call
ChSelected(c) == SelectedLandmarks(c.poseData.poses.items[0])

\* C2: a frame whose selected landmark list (worldLandmarks if non-empty,
\* else landmarks) has a count other than 33, fewer or more, changes no bone
\* of the character, no GLTF bone and not the model position.
C2_WrongCountChangesNothing ==
  [][ (/\ ChCallWithPose(call')
       /\ Length(ChSelected(call')) # NumLandmarks)
      => /\ characterViewer'.bones = characterViewer.bones
         /\ characterViewer'.objects = characterViewer.objects ]_vars

\* the upper and lower segment of each limb, with its endpoint landmarks
LimbSegments ==
  { [key |-> "leftArmUpper", start |-> LEFT_SHOULDER, end |-> LEFT_ELBOW],
    [key |-> "leftArmLower", start |-> LEFT_ELBOW, end |-> LEFT_WRIST],
    [key |-> "rightArmUpper", start |-> RIGHT_SHOULDER, end |-> RIGHT_ELBOW],
    [key |-> "rightArmLower", start |-> RIGHT_ELBOW, end |-> RIGHT_WRIST],
    [key |-> "leftLegUpper", start |-> LEFT_HIP, end |-> LEFT_KNEE],
    [key |-> "leftLegLower", start |-> LEFT_KNEE, end |-> LEFT_ANKLE],
    [key |-> "rightLegUpper", start |-> RIGHT_HIP, end |-> RIGHT_KNEE],
    [key |-> "rightLegLower", start |-> RIGHT_KNEE, end |-> RIGHT_ANKLE] }

\* both endpoints have confidence 0.5 or more and lie at different points
ConfidentAndDistinct(s, e) ==
  /\ HasVisibility(s) /\ s.visibility >= Half
  /\ HasVisibility(e) /\ e.visibility >= Half
  /\ <<s.x, s.y, s.z>> # <<e.x, e.y, e.z>>

\* C6: on the procedural rig, a frame of 33 landmarks leaves each limb
\* segment with a low-confidence endpoint or coincident endpoints hidden, and
\* gives it no position, orientation or scale.
C6_UnusableSegmentHidden ==
  [][ (/\ ChCallWithPose(call')
       /\ Length(ChSelected(call')) = NumLandmarks
       /\ ~(characterViewer.modelType = "custom" /\ characterViewer.loadedGLTFModel # Null))
      => \A seg \in LimbSegments :
           (/\ seg.key \in DOMAIN characterViewer.bones
            /\ ~ConfidentAndDistinct(ChSelected(call').items[seg.start],
                                     ChSelected(call').items[seg.end]))
           => /\ ~characterViewer'.bones[seg.key].visible
              /\ characterViewer'.bones[seg.key].position = characterViewer.bones[seg.key].position
              /\ characterViewer'.bones[seg.key].quaternion = characterViewer.bones[seg.key].quaternion
              /\ characterViewer'.bones[seg.key].scaleY = characterViewer.bones[seg.key].scaleY ]_vars

---------------------------------------------------------------------------
(* Claims about PoseModelViewer                                            *)

\* C3: a pose whose selected landmark list has fewer than 33 entries leaves
\* every joint sphere's position and visibility and the bone cylinders in
\* the scene as they were.
C3_ShortListChangesNothing ==
  [][ (/\ call'.op = "updateVisualization"
       /\ ~call'.poseData.poses.isNull
       /\ Length(call'.poseData.poses) > 0
       /\ Length(SelectedLandmarks(call'.poseData.poses.items[0])) < NumLandmarks)
      => /\ \A i \in LandmarkIds :
              /\ modelViewer'.jointSpheres[i].position = modelViewer.jointSpheres[i].position
              /\ modelViewer'.jointSpheres[i].visible = modelViewer.jointSpheres[i].visible
         /\ modelViewer'.boneCylinders = modelViewer.boneCylinders ]_vars

---------------------------------------------------------------------------
(* Claims about PoseExporter and PoseReceiver                              *)

\* the step is a call of exportPose
ExportStep == calls' = calls + 1 /\ call'.op = "exportPose"

\* a result that carries at least one person
NonEmptyResult(result) == ~result.landmarks.isNull /\ Length(result.landmarks) > 0

\* the entries a log has gained over a step
Gained(before, after) == SubSeq(after, Len(before) + 1, Len(after))

\* C8: exportPose called while enabled is false posts nothing on the channel,
\* sends nothing on the socket, dispatches no event, runs no receiver
\* callback and leaves frameCount and lastExportTime as they were.
C8_DisabledExportHasNoEffect ==
  [][ (ExportStep /\ ~poseExporter.enabled)
      => /\ outbox' = outbox
         /\ poseReceivers' = poseReceivers
         /\ poseExporter'.frameCount = poseExporter.frameCount
         /\ poseExporter'.lastExportTime = poseExporter.lastExportTime ]_vars

\* C8 witness: after frames were published, the exporter was disabled and
\* exportPose was called with a frame and a new time stamp while the channel
\* and the socket were open
C8_Witness ==
  /\ call.op = "exportPose"
  /\ NonEmptyResult(call.result)
  /\ ~poseExporter.enabled
  /\ poseExporter.frameCount > 0
  /\ call.timestamp # poseExporter.lastExportTime
  /\ poseExporter.channel = "open"
  /\ poseExporter.websocket = "open"

\* C9: exportPose of a non-empty frame, with no channel or with a socket that
\* is absent or not open, raises no error, posts nothing on a missing channel,
\* sends nothing and logs no socket error on a socket that is not open, and
\* still hands the same frame to each transport that is available and to the
\* 'pose-data' listeners of the page.
C9_UnconnectedTransportSkipped ==
  [][ (/\ ExportStep
       /\ poseExporter.enabled
       /\ NonEmptyResult(call'.result)
       /\ (poseExporter.channel = "none" \/ poseExporter.websocket # "open"))
      => /\ ~call'.threw
         /\ Len(outbox'.dispatched) = Len(outbox.dispatched) + 1
         /\ LET frame == outbox'.dispatched[Len(outbox'.dispatched)]
            IN /\ frame.timestamp = call'.timestamp
               /\ frame.frameCount = poseExporter.frameCount
               /\ Length(frame.poses) = Length(call'.result.landmarks)
               /\ poseExporter.channel = "none" =>
                    /\ outbox'.posted = outbox.posted
                    /\ \A r \in ReceiverIds : poseReceivers'[r].queue = poseReceivers[r].queue
               /\ poseExporter.websocket # "open" =>
                    /\ outbox'.sent = outbox.sent
                    /\ \A k \in DOMAIN Gained(outbox.errors, outbox'.errors) :
                         Gained(outbox.errors, outbox'.errors)[k]
                           # "PoseExporter: WebSocket send error"
               /\ poseExporter.channel = "open" =>
                    outbox'.posted = Append(outbox.posted, frame)
               /\ poseExporter.websocket = "open" =>
                    outbox'.sent = Append(outbox.sent, JSONStringify(frame))
               /\ \A r \in ReceiverIds :
                    poseReceivers[r].samePage =>
                      poseReceivers'[r].deliveries =
                        Append(poseReceivers[r].deliveries,
                               [via |-> "event", data |-> frame]) ]_vars

\* C9 witness: a frame was exported while the socket was still connecting;
\* it was posted on the channel and dispatched, and nothing was sent
C9_Witness ==
  /\ call.op = "exportPose"
  /\ NonEmptyResult(call.result)
  /\ poseExporter.enabled
  /\ poseExporter.websocket = "connecting"
  /\ poseExporter.channel = "open"
  /\ outbox.posted # <<>>
  /\ outbox.dispatched # <<>>
  /\ outbox.sent = <<>>

\* C10: the arguments a receiver's callback has been invoked with are, in
\* order, exactly the frames of the channel messages and window events
\* delivered to it.
C10_OneInvocationPerDelivery ==
  \A r \in ReceiverIds :
    poseReceivers[r].invocations =
      [k \in DOMAIN poseReceivers[r].deliveries |-> poseReceivers[r].deliveries[k].data]

\* C10 witness: a receiver in the exporter's page got one frame as a window
\* event and later as a channel message, and a second frame in between
C10_Witness ==
  \E r \in ReceiverIds :
    LET d == poseReceivers[r].deliveries
    IN /\ Len(poseReceivers[r].invocations) >= 3
       /\ \E i, j, k \in DOMAIN d :
            /\ i < j /\ j < k
            /\ d[i].via = "event" /\ d[k].via = "channel"
            /\ d[i].data = d[k].data
            /\ d[j].data # d[i].data

\* the step is a call of exportPose that publishes a frame
PublishStep == ExportStep /\ ~SkipsExport(poseExporter, call'.result)

\* the frame the step dispatched
PublishedFrame == outbox'.dispatched[Len(outbox'.dispatched)]

\* every entry of an exported list has its position as id, and the name of
\* the table at that id for 0..32, the text landmark_<id> otherwise
Identified(list) ==
  \A k \in DOMAIN list.items :
    /\ list.items[k].id = k
    /\ list.items[k].name = IF k \in 0 .. 32
                            THEN landmarkNames[k + 1]
                            ELSE "landmark_" \o ToString(k)

\* the input has no world landmarks for person p
NoWorldLandmarks(result, p) ==
  result.worldLandmarks.isNull \/ p \notin DOMAIN result.worldLandmarks.items

\* C11: in every frame exportPose publishes (channel message, socket text,
\* window event), each entry of landmarks and worldLandmarks has its list
\* position as id and the table name of that id (landmark_<id> past the
\* table), personId is the index of the person in the input, the lists have
\* the lengths of the input lists, and worldLandmarks is the empty list for
\* a person the input has no world landmarks for.
C11_PublishedEntriesIdentified ==
  [][ PublishStep
      => LET frame == PublishedFrame
             result == call'.result
         IN /\ DOMAIN frame.poses.items = DOMAIN result.landmarks.items
            /\ \A p \in DOMAIN frame.poses.items :
                 LET pose == frame.poses.items[p]
                 IN /\ pose.personId = p
                    /\ Identified(pose.landmarks)
                    /\ Identified(pose.worldLandmarks)
                    /\ DOMAIN pose.landmarks.items = DOMAIN result.landmarks.items[p]
                    /\ IF NoWorldLandmarks(result, p)
                       THEN Length(pose.worldLandmarks) = 0
                       ELSE DOMAIN pose.worldLandmarks.items
                              = DOMAIN result.worldLandmarks.items[p]
            /\ \A k \in DOMAIN Gained(outbox.posted, outbox'.posted) :
                 Gained(outbox.posted, outbox'.posted)[k] = frame
            /\ \A k \in DOMAIN Gained(outbox.sent, outbox'.sent) :
                 Gained(outbox.sent, outbox'.sent)[k] = JSONStringify(frame) ]_vars

\* C11 witness: a frame of two persons was published on the channel, the
\* socket and the window; the first person has a 34th entry named
\* landmark_33 in both lists, the second has no world landmarks
C11_Witness ==
  /\ call.op = "exportPose"
  /\ outbox.posted # <<>> /\ outbox.sent # <<>> /\ outbox.dispatched # <<>>
  /\ LET frame == outbox.dispatched[Len(outbox.dispatched)]
     IN /\ Length(frame.poses) = 2
        /\ frame.poses.items[0].landmarks.items[NumLandmarks].name = "landmark_33"
        /\ frame.poses.items[0].worldLandmarks.items[NumLandmarks].id = NumLandmarks
        /\ frame.poses.items[1].personId = 1
        /\ Length(frame.poses.items[1].landmarks) = NumLandmarks
        /\ Length(frame.poses.items[1].worldLandmarks) = 0
        /\ outbox.sent[Len(outbox.sent)] = JSONStringify(frame)

---------------------------------------------------------------------------
(* Claims about the GLTF models of CharacterPoseViewer                     *)

\* the step is the success callback of a load
LoadSucceededStep == call'.op = "loadSucceeded" /\ characterViewer' # characterViewer

\* the default procedural character is the model on display
ProceduralRigDisplayed(self) ==
  /\ self.characterModel # Null
  /\ self.characterModel \in self.scene
  /\ self.objects[self.characterModel].name = "character"
  /\ {"head", "torso", "hips"} \subseteq DOMAIN self.bones

\* C12: when a loaded GLTF model is attached and findGLTFBones has bound no
\* role (gltfBones is empty), the viewer falls back to the default
\* procedural rig: the procedural character is the displayed model and the
\* unrigged model is not left attached.
C12_UnmatchedRigFallsBack ==
  [][ (LoadSucceededStep /\ DOMAIN characterViewer'.gltfBones = {})
      => /\ ProceduralRigDisplayed(characterViewer')
         /\ characterViewer'.loadedGLTFModel \notin characterViewer'.scene ]_vars


\* for each file and each role of the alias table, the places (in traversal
\* order) of the objects whose name contains an alias of the role, both
\* taken in lower case
PlacesContainingAlias ==
  [path \in DOMAIN GLTFFiles |->
     [r \in DOMAIN commonBoneNames |->
        {i \in DOMAIN GLTFFiles[path].names :
           \E k \in DOMAIN commonBoneNames[r].aliases :
             includes(toLowerCase(GLTFFiles[path].names[i]),
                      toLowerCase(commonBoneNames[r].aliases[k]))}]]

Least(S) == CHOOSE i \in S : \A j \in S : i <= j

\* C13: after findGLTFBones each role is bound to the first object, in
\* traversal order, whose name contains an alias of the role as a substring,
\* ignoring case; a role no object matches is unbound; nothing else is
\* bound, whatever was bound before the call.
C13_FirstMatchBindsRole ==
  [][ LoadSucceededStep
      => LET places == PlacesContainingAlias[call'.modelPath]
             bound == characterViewer'.gltfBones
         IN /\ DOMAIN bound \subseteq {commonBoneNames[r].key : r \in DOMAIN commonBoneNames}
            /\ \A r \in DOMAIN commonBoneNames :
                 IF places[r] = {}
                 THEN commonBoneNames[r].key \notin DOMAIN bound
                 ELSE /\ commonBoneNames[r].key \in DOMAIN bound
                      /\ bound[commonBoneNames[r].key] = Least(places[r]) ]_vars

\* C13 witness: a model was attached in which 'HEAD_top' comes before 'head':
\* the head role is bound to the former, 'L_Hand' is bound as the left wrist,
\* and no object matches the left knee
C13_Witness ==
  /\ call.op = "loadSucceeded"
  /\ call.modelPath = "props.glb"
  /\ characterViewer.loadedGLTFModel # Null
  /\ "head" \in DOMAIN characterViewer.gltfBones
  /\ characterViewer.gltfBones["head"] = 2
  /\ "leftWrist" \in DOMAIN characterViewer.gltfBones
  /\ "leftKnee" \notin DOMAIN characterViewer.gltfBones


---------------------------------------------------------------------------
(* Claims about the limbs of the procedural characters                     *)

\* the step is updateCharacterFromPose driving a procedural character
ProceduralPoseStep ==
  /\ ChCallWithPose(call')
  /\ ~RejectsPoseData(call'.poseData)
  /\ ~(characterViewer.modelType = "custom" /\ characterViewer.loadedGLTFModel # Null)

\* the position getPos gives landmark i of the frame of the step
FramePos(i) ==
  getPos(ChSelected(call').items[i],
         Length(call'.poseData.poses.items[0].worldLandmarks) > 0)

\* C15: for every procedural character and every upper and lower limb
\* segment, the scale.y written by updateLimb is the distance of the
\* segment's endpoints divided by the segment's own rest length, the length
\* createLimb gave its geometry.
C15_ScaleIsDistanceOverRestLength ==
  [][ ProceduralPoseStep
      => \A seg \in LimbSegments :
           seg.key \in DOMAIN characterViewer.bones
           => characterViewer'.bones[seg.key].scaleY =
                Div(VLength(VSub(FramePos(seg.end), FramePos(seg.start))),
                    characterViewer.bones[seg.key].height) ]_vars


---------------------------------------------------------------------------
(* Claims relating two frames given to SkeletonRenderer                    *)

\* the step is updatePose on a list of exactly 33 entries
SkValidStep ==
  /\ calls' = calls + 1
  /\ call'.op = "updatePose"
  /\ ~call'.landmarks.isNull
  /\ Length(call'.landmarks) = NumLandmarks

\* the frame with every landmark position moved by v, nothing else changed
Translated(landmarks, v) ==
  List([i \in DOMAIN landmarks.items |->
          LET lm == landmarks.items[i]
          IN IF IsNullEntry(lm) THEN lm
             ELSE [lm EXCEPT !.x = @ + v.x, !.y = @ + v.y, !.z = @ + v.z]])

\* the vectors a frame of the model can be moved by to give another frame
Translations == {ShiftVec, VSub(ZeroVec, ShiftVec)}

\* the landmark is drawn as a joint: its visibility is above 0.3
Drawn(lm) == ~NotAboveThreshold(lm)

\* C16: from one renderer state, updatePose on a valid frame and updatePose
\* on the same frame with every position moved by one vector give each joint
\* the same visibility and each bone the same visibility, length scale and
\* rotation, and the same start-to-end vector between drawn endpoints; a
\* drawn joint is moved by the image of the vector.
C16_TranslationInvariant ==
  [][ SkValidStep
      => \A v \in Translations :
           \A a \in {skeletonRenderer'},
              b \in {updatePose(skeletonRenderer, Translated(call'.landmarks, v))},
              moved \in {Vec(Mul(2 * v.x, skeletonRenderer.scale),
                             Mul(-(2 * v.y), skeletonRenderer.scale),
                             Mul(-(2 * v.z), skeletonRenderer.scale))} :
              /\ \A i \in LandmarkIds :
                   /\ a.joints[i].visible = b.joints[i].visible
                   /\ Drawn(call'.landmarks.items[i])
                        => b.joints[i].position = VAdd(a.joints[i].position, moved)
              /\ \A k \in BoneIds :
                   /\ a.bones[k].visible = b.bones[k].visible
                   /\ a.bones[k].scaleY = b.bones[k].scaleY
                   /\ a.bones[k].quaternion = b.bones[k].quaternion
                   /\ (/\ Drawn(call'.landmarks.items[Connections[k][1]])
                       /\ Drawn(call'.landmarks.items[Connections[k][2]]))
                      => VSub(a.joints[Connections[k][2]].position,
                              a.joints[Connections[k][1]].position)
                         = VSub(b.joints[Connections[k][2]].position,
                                b.joints[Connections[k][1]].position) ]_vars

\* C16 witness: the moved rest pose was given as a valid frame at a scale
\* other than 1 and left a bone visible, scaled and rotated, away from the
\* place the unmoved pose puts it
C16_Witness ==
  /\ SkValidCall
  /\ SkLandmark(NOSE).x = ShiftVec.x /\ SkLandmark(NOSE).z = ShiftVec.z
  /\ skeletonRenderer.scale # Unit
  /\ \E k \in BoneIds :
       /\ skeletonRenderer.bones[k].visible
       /\ skeletonRenderer.bones[k].quaternion # IdentityQuaternion
       /\ skeletonRenderer.bones[k].scaleY # OneLength
       /\ skeletonRenderer.bones[k].position
            # updatePose(skeletonRenderer,
                         Translated(call.landmarks, VSub(ZeroVec, ShiftVec))).bones[k].position


---------------------------------------------------------------------------
(* Claims about the orientation of a bone                                  *)

\* the left upper arm: the bone from the left shoulder to the left elbow
LeftUpperArm == CHOOSE k \in BoneIds : Connections[k] = <<LEFT_SHOULDER, LEFT_ELBOW>>

\* the most recent call was updatePose on the frame with the left shoulder
\* at (0, 1, 0) and the left elbow at (0, 0.5, 0), confidences 1
SkScenarioCall ==
  /\ SkValidCall
  /\ SkLandmark(LEFT_SHOULDER) = WithVisibility(Vec(0, Unit, 0), Unit)
  /\ SkLandmark(LEFT_ELBOW) = WithVisibility(Vec(0, Half, 0), Unit)

\* C17: after updatePose on a valid frame every visible bone has the
\* shortest-arc rotation of the canonical axis (0, 1, 0) onto the normalized
\* direction from its start joint to its end joint; and for the frame with
\* the left shoulder at (0, 1, 0) and the left elbow at (0, 0.5, 0),
\* confidences 1, on the renderer with scale 1 that shows joints and bones,
\* the left upper arm is visible, rotated by 180 degrees from up onto down,
\* and scaled by 0.5 over its rest length 1.
C17_ShortestArcOntoDirection ==
  /\ SkValidCall =>
       \A k \in BoneIds :
         skeletonRenderer.bones[k].visible =>
           skeletonRenderer.bones[k].quaternion =
             SetFromUnitVectors(
               YAxis,
               Normalize(VSub(skeletonRenderer.joints[Connections[k][2]].position,
                              skeletonRenderer.joints[Connections[k][1]].position)))
  /\ (/\ SkScenarioCall
      /\ skeletonRenderer.scale = Unit
      /\ skeletonRenderer.showJoints /\ skeletonRenderer.showBones)
     => /\ skeletonRenderer.bones[LeftUpperArm].visible
        /\ skeletonRenderer.bones[LeftUpperArm].quaternion
             = SetFromUnitVectors(YAxis, NegYAxis)
        /\ skeletonRenderer.bones[LeftUpperArm].scaleY = Sqrt(Half * Half)


---------------------------------------------------------------------------
(* Claims about successive frames given to SkeletonRenderer                *)

\* C18: updatePose on a valid frame hides every bone whose two endpoints the
\* frame puts at one position; and with showJoints and showBones enabled it
\* shows every bone whose endpoints the frame gives a visibility above 0.3
\* and different positions, whatever the frames before did to the bone, in
\* particular when the frame before had hidden it as degenerate.
C18_DegenerateHiddenForFrameOnly ==
  [][ SkValidStep
      => \A k \in BoneIds :
           LET s == call'.landmarks.items[Connections[k][1]]
               e == call'.landmarks.items[Connections[k][2]]
           IN /\ k \in CollapsedBones(call'.landmarks)
                   => ~skeletonRenderer'.bones[k].visible
              /\ (/\ skeletonRenderer.showJoints /\ skeletonRenderer.showBones
                  /\ Drawn(s) /\ Drawn(e)
                  /\ <<s.x, s.y, s.z>> # <<e.x, e.y, e.z>>)
                 => skeletonRenderer'.bones[k].visible ]_vars

\* C18 witness: the frame before put the left shoulder and the left elbow at
\* one position, and this frame, with joints and bones displayed, gave them
\* different positions and left the bone visible
C18_Witness ==
  /\ SkValidCall
  /\ LeftUpperArm \in call.collapsedBefore
  /\ LeftUpperArm \notin CollapsedBones(call.landmarks)
  /\ skeletonRenderer.showJoints /\ skeletonRenderer.showBones
  /\ skeletonRenderer.bones[LeftUpperArm].visible


\* bone k as one updatePose leaves it when the frame's entries for the two
\* endpoints of the bone are s and e: a function of the renderer before the
\* call and of these two entries only
BoneFromEndpoints(self, k, s, e) ==
  UpdateBone(self, self.bones[k],
             (Connections[k][1] :> UpdateJoint(self, self.joints[Connections[k][1]], s))
             @@ (Connections[k][2] :> UpdateJoint(self, self.joints[Connections[k][2]], e)))

\* C19: what updatePose on a valid frame leaves of a bone (visibility,
\* position, length scale, rotation) is determined by the renderer before
\* the call and the frame's two entries for the endpoints of the bone, so
\* that two frames agreeing on these entries give the bone the same result
\* whatever the other landmarks are; and with joints and bones displayed, a
\* bone whose endpoints have a visibility above 0.3 and different positions
\* is visible also when the frame hides other bones.
C19_BoneDependsOnOwnEndpoints ==
  [][ SkValidStep
      => \A k \in BoneIds :
           LET s == call'.landmarks.items[Connections[k][1]]
               e == call'.landmarks.items[Connections[k][2]]
           IN /\ skeletonRenderer'.bones[k] = BoneFromEndpoints(skeletonRenderer, k, s, e)
              /\ (/\ skeletonRenderer.showJoints /\ skeletonRenderer.showBones
                  /\ \E h \in BoneIds \ {k} : ~skeletonRenderer'.bones[h].visible
                  /\ Drawn(s) /\ Drawn(e)
                  /\ <<s.x, s.y, s.z>> # <<e.x, e.y, e.z>>)
                 => skeletonRenderer'.bones[k].visible ]_vars

\* C19 witness: with joints and bones displayed, a valid frame put the left
\* elbow on the left shoulder: the left upper arm is hidden, and the bones
\* that share a joint with it (shoulder to shoulder, elbow to wrist) are
\* visible
C19_Witness ==
  /\ SkValidCall
  /\ skeletonRenderer.showJoints /\ skeletonRenderer.showBones
  /\ LeftUpperArm \in CollapsedBones(call.landmarks)
  /\ ~skeletonRenderer.bones[LeftUpperArm].visible
  /\ \E k \in BoneIds :
       /\ Connections[k] = <<LEFT_SHOULDER, RIGHT_SHOULDER>>
       /\ skeletonRenderer.bones[k].visible
  /\ \E k \in BoneIds :
       /\ Connections[k] = <<LEFT_ELBOW, LEFT_WRIST>>
       /\ skeletonRenderer.bones[k].visible


---------------------------------------------------------------------------
(* Claims about PoseMirrorApp and PoseTracker                              *)

\* the status text startTracking shows for an acquisition failure
AcquisitionFailureText(message) ==
  "Error starting camera: Could not access camera: " \o message

\* C14: when getUserMedia fails for a startTracking call (PoseTracker.start
\* rejects), the status element shows the error, the promise of
\* startTracking does not reject, and isRunning of the app and of the
\* tracker are what they were, so they stay false; a startTracking call made
\* while neither is running, after a failure or not, asks for the camera
\* again; and a start() that runs to its end leaves the app and the tracker
\* running with a started Camera on a live stream.
C14_AcquisitionFailureIsRetryable ==
  [][ /\ call'.op = "getUserMediaRejected"
         => /\ StatusText(poseMirrorApp') = AcquisitionFailureText(call'.message)
            /\ ~call'.threw
            /\ poseMirrorApp'.isRunning = poseMirrorApp.isRunning
            /\ poseTracker'.isRunning = poseTracker.isRunning
            /\ poseTracker'.camera = poseTracker.camera
      /\ (/\ call'.op = "startTracking" /\ calls' = calls + 1
          /\ ~poseMirrorApp.isRunning /\ ~poseTracker.isRunning)
         => /\ ~call'.threw
            /\ \E s \in poseTracker'.starts \ poseTracker.starts : s.stage = "getUserMedia"
      /\ (/\ call'.op = "loadedmetadata"
          /\ WaitingForMetadata(poseTracker) # {}
          /\ poseTracker.cameraLoaded)
         => /\ poseMirrorApp'.isRunning
            /\ poseTracker'.isRunning
            /\ poseTracker'.camera \in poseTracker'.cameras
            /\ poseTracker'.srcObject \in poseTracker'.streams
            /\ StatusText(poseMirrorApp') = "Camera active. Pose detection running." ]_vars

\* C14 witness: an acquisition failure was shown while nothing else was
\* started, a later startTracking asked again, and the app and the tracker
\* are now running
C14_Witness ==
  /\ poseMirrorApp.isRunning
  /\ poseTracker.isRunning
  /\ poseTracker.camera \in poseTracker.cameras
  /\ Len(poseMirrorApp.shown) = 5
  /\ poseMirrorApp.shown[2] = "Starting camera..."
  /\ poseMirrorApp.shown[3] = AcquisitionFailureText("Permission denied")
  /\ poseMirrorApp.shown[4] = "Starting camera..."
  /\ poseMirrorApp.shown[5] = "Camera active. Pose detection running."


\* C20: SkeletonRenderer.updatePose is invoked with an inference result only
\* while the app is running: once stopTracking has returned, no result is
\* applied until a startTracking has succeeded again, also not the result of
\* a pose.send that was in flight when stopTracking was called.
C20_NoUpdatePoseAfterStop ==
  [][ (call'.op = "onPoseDetected" /\ call'.updatePose)
      => poseMirrorApp.isRunning ]_vars

---------------------------------------------------------------------------
(* Claims about the rig swap of CharacterPoseViewer                        *)

\* the step is changeModel(t) for one of the three procedural types,
\* returning with no load pending
ChangeModelStep ==
  /\ call'.op = "changeModel"
  /\ calls' = calls + 1
  /\ call'.modelType \in ModelTypes
  /\ characterViewer'.pendingLoads = <<>>

\* the name createXxx gives the group of a procedural character of a type
GroupName(modelType) ==
  CASE modelType = "humanoid" -> "character"
    [] modelType = "robot" -> "robot"
    [] modelType = "stickman" -> "stickman"

\* the frames updateCharacterFromPose does not return early from
ValidViewerFrames == {f \in ViewerFrames : ~RejectsPoseData(f)}

\* the hip centre updateCharacterFromPose computes from a valid frame
HipCenterOf(poseData) ==
  LET pose == poseData.poses.items[0]
      landmarks == SelectedLandmarks(pose)
      useWorldCoords == Length(pose.worldLandmarks) > 0
  IN Lerp(getPos(Entry(landmarks.items, LEFT_HIP), useWorldCoords),
          getPos(Entry(landmarks.items, RIGHT_HIP), useWorldCoords))

\* C21: changeModel(t) for t in {humanoid, robot, stickman} returning with no
\* load pending is a full rig swap: the scene holds exactly one character
\* model, the newly created one of type t; the bones map holds only meshes of
\* that model; gltfBones is empty; modelType is t; and the next valid pose
\* frame is applied to the new model's bones.
C21_ChangeModelSwapsRig ==
  [][ ChangeModelStep =>
        \A after \in {characterViewer'} :
          /\ after.characterModel = characterViewer.nextId
          /\ after.scene = {after.characterModel}
          /\ after.objects[after.characterModel].name = GroupName(call'.modelType)
          /\ DOMAIN after.bones # {}
          /\ \A k \in DOMAIN after.bones : after.bones[k].owner = after.characterModel
          /\ DOMAIN after.gltfBones = {}
          /\ after.modelType = call'.modelType
          /\ \A f \in ValidViewerFrames :
               \A posed \in {updateCharacterFromPose(after, f)} :
                 /\ DOMAIN posed.bones = DOMAIN after.bones
                 /\ \A k \in DOMAIN posed.bones : posed.bones[k].owner = after.characterModel
                 /\ posed.bones["hips"].position = HipCenterOf(f) ]_vars

---------------------------------------------------------------------------
(* Claims about the global scale of SkeletonRenderer                       *)

\* the rendered position of a joint: its local position transformed by the
\* scale of the skeleton group it was added to (the group is at the origin of
\* the scene and is not rotated)
WorldPosition(self, joint) ==
  Vec(Mul(joint.position.x, self.skeleton.scale),
      Mul(joint.position.y, self.skeleton.scale),
      Mul(joint.position.z, self.skeleton.scale))

\* C22: the global scale factor is applied uniformly and exactly once: after
\* setScale(s) followed by updatePose on a valid frame, the rendered (world)
\* position of every visible joint is s times its centered coordinate on
\* each of x, y and z, the joint's local position and the scale of the
\* skeleton group both taken into account.
C22_ScaleAppliedOnce ==
  SkValidCall =>
    \A i \in LandmarkIds :
      skeletonRenderer.joints[i].visible =>
        WorldPosition(skeletonRenderer, skeletonRenderer.joints[i])
          = CenteredPosition(SkLandmark(i), skeletonRenderer.scale)


\* C23: at most one character model is attached to the scene at any time, in
\* every interleaving of changeModel calls, loadGLTFModel calls and the
\* success and error completions of the loads: every model that was added is
\* removed before or when another one is added.
C23_AtMostOneModelAttached == Cardinality(characterViewer.scene) <= 1


\* the default procedural character is the model on display and its meshes
\* are the bones map: the state createProceduralCharacter leaves, which is
\* what the error callback of a load falls back to
FallbackDisplayed(self) ==
  /\ ProceduralRigDisplayed(self)
  /\ \A k \in DOMAIN self.bones : self.bones[k].owner = self.characterModel

\* the step is the receiver callback with a frame updateCharacterFromPose
\* does not return early from
ValidPoseStep ==
  /\ call'.op = "updateCharacterFromPose"
  /\ calls' = calls + 1
  /\ ~RejectsPoseData(call'.poseData)

\* the limb meshes the procedural update path positions
LimbParts ==
  {l \o p : l \in {"leftArm", "rightArm", "leftLeg", "rightLeg"},
            p \in {"Upper", "Joint", "Lower", "End"}}

\* the meshes a frame was applied to through the procedural update path:
\* hips at the hip centre, torso and limbs where updateCharacterFromPose
\* computes them from the frame
ProcedurallyPosed(before, after, poseData) ==
  /\ after.bones = updateCharacterFromPose(
                     [before EXCEPT !.modelType = "humanoid"], poseData).bones
  /\ after.bones["hips"].position = HipCenterOf(poseData)

\* C24: after a GLTF load has failed, the fallback procedural character is
\* fully functional: every later valid pose frame updates its bones (head,
\* torso, hips, limbs) through the procedural update path, also when the
\* failed load follows an earlier successful custom-model load (modelType
\* was 'custom' and loadedGLTFModel was set before the failure).
C24_FallbackCharacterFollowsPose ==
  [][ (ValidPoseStep /\ FallbackDisplayed(characterViewer))
      => ProcedurallyPosed(characterViewer, characterViewer', call'.poseData) ]_vars

---------------------------------------------------------------------------
(* Claims about the capture sessions of PoseMirrorApp                      *)

\* the capture sessions that are active: the Camera objects whose frame loop
\* runs while a media stream with live tracks is held
CaptureSessions(self) ==
  IF self.streams = {} THEN {} ELSE self.cameras

\* C25: at most one capture session (acquired media stream with a running
\* Camera frame loop) is active at any time, and after stopTracking
\* completes none is active, in every interleaving of startTracking and
\* stopTracking invocations, a second startTracking invoked while the first
\* one still awaits camera permission or video metadata included.
C25_AtMostOneCaptureSession ==
  /\ Cardinality(CaptureSessions(poseTracker)) <= 1
  /\ call.op = "stopTracking" => CaptureSessions(poseTracker) = {}

---------------------------------------------------------------------------
(* Claims about the frames PoseExporter publishes                          *)

\* the frames of a sequence of published frames
Frames(published) == {published[k] : k \in DOMAIN published}

\* the frameCount values of a sequence of frames go up strictly
Ascending(published) ==
  \A k, l \in DOMAIN published :
    k < l => published[k].frameCount < published[l].frameCount

\* C26: the frameCount values of the frames one PoseExporter has published
\* are 0, 1, 2, ... in publish call order, with no gap and no repeat, after
\* any sequence of exportPose and setEnabled calls: calls that publish
\* nothing (disabled, or no landmarks) consume no frameCount, and all
\* transports receive the same frameCount for the same publish.
C26_FrameCountsConsecutive ==
  /\ \A k \in DOMAIN outbox.dispatched : outbox.dispatched[k].frameCount = k - 1
  /\ poseExporter.frameCount = Len(outbox.dispatched)
  /\ Frames(outbox.posted) \subseteq Frames(outbox.dispatched)
  /\ Ascending(outbox.posted)
  /\ \A k \in DOMAIN outbox.sent :
       \E frame \in Frames(outbox.dispatched) : outbox.sent[k] = JSONStringify(frame)
  /\ Ascending([k \in DOMAIN outbox.sent |-> outbox.sent[k].json])

\* C26 witness: two frames were published on the channel, the socket and the
\* window, numbered 0 and 1, and then exportPose was called with a result
\* that has no landmarks, which published nothing and left the counter at 2
C26_Witness ==
  /\ calls = 3
  /\ call.op = "exportPose"
  /\ SkipsExport(poseExporter, call.result)
  /\ poseExporter.enabled
  /\ Len(outbox.dispatched) = 2
  /\ Len(outbox.posted) = 2
  /\ Len(outbox.sent) = 2
  /\ outbox.dispatched[2].frameCount = 1
  /\ poseExporter.frameCount = 2


\* the published entries of a list carry the confidence of the input: the
\* visibility of the input entry where it has one, 1.0 where it has none
ConfidencePreserved(input, published) ==
  \A idx \in DOMAIN input :
    published.items[idx].visibility =
      IF HasVisibility(input[idx]) THEN input[idx].visibility ELSE Unit

\* a viewer that receives the published list hides every landmark whose
\* input has confidence 0
ZeroConfidenceHidden(input, published, useWorldCoords) ==
  \A idx \in DOMAIN input :
    (HasVisibility(input[idx]) /\ input[idx].visibility = 0)
      => ~UpdateSphere(published.items[idx], useWorldCoords).visible

\* C27: exportPose preserves confidence: every landmark (normalized and
\* world) whose input carries a visibility v in [0, 1] is published with
\* visibility exactly v, an input visibility of 0 as 0, and only a landmark
\* with no visibility value is published with visibility 1.0; so a landmark
\* with confidence 0 at the source is hidden in a viewer that receives the
\* frame.
C27_ConfidencePreserved ==
  [][ PublishStep
      => LET frame == PublishedFrame
             result == call'.result
         IN \A p \in DOMAIN frame.poses.items :
              /\ ConfidencePreserved(result.landmarks.items[p],
                                     frame.poses.items[p].landmarks)
              /\ ZeroConfidenceHidden(result.landmarks.items[p],
                                      frame.poses.items[p].landmarks, FALSE)
              /\ ~NoWorldLandmarks(result, p) =>
                   /\ ConfidencePreserved(result.worldLandmarks.items[p],
                                          frame.poses.items[p].worldLandmarks)
                   /\ ZeroConfidenceHidden(result.worldLandmarks.items[p],
                                           frame.poses.items[p].worldLandmarks, TRUE) ]_vars


\* PoseReceiver.destroy() has returned for a receiver: only destroy() closes
\* the channel a receiver listens on
Destroyed(self) == self.channel = "closed"

\* C28: after PoseReceiver.destroy() has returned, the receiver's callback is
\* never invoked again and lastReceivedTime no longer changes, whatever
\* frames are published afterwards on the BroadcastChannel or as 'pose-data'
\* window events.
C28_DestroyedReceiverIsSilent ==
  [][ \A r \in ReceiverIds :
        Destroyed(poseReceivers[r])
          => /\ poseReceivers'[r].invocations = poseReceivers[r].invocations
             /\ poseReceivers'[r].lastReceivedTime = poseReceivers[r].lastReceivedTime ]_vars

---------------------------------------------------------------------------
(* Claims about what SkeletonRenderer shows over a sequence of calls       *)

\* a valid frame has been accepted
FrameAccepted == ~LastAccepted.isNull

\* entry i of the most recently accepted frame
AcceptedLandmark(i) == Entry(LastAccepted.items, i)

\* the landmark had visibility above 0.3 in the most recently accepted frame
ConfidentInAccepted(i) ==
  /\ ~IsNullEntry(AcceptedLandmark(i))
  /\ VisibilityAbove(AcceptedLandmark(i), 3 * (Unit \div 10))

\* the two landmarks had distinct positions in the most recently accepted frame
DistinctInAccepted(i, j) ==
  LET s == AcceptedLandmark(i)
      e == AcceptedLandmark(j)
  IN <<s.x, s.y, s.z>> # <<e.x, e.y, e.z>>

\* C29: over every sequence of updatePose, setShowJoints, setShowBones,
\* setBoneThickness and setScale calls, a bone mesh is visible only if
\* showBones is true, at least one valid frame has been accepted, and both
\* endpoint landmarks of the bone had visibility above 0.3 and distinct
\* positions in the most recently accepted frame; a joint is visible only if
\* showJoints is true and its landmark had visibility above 0.3 in that frame.
C29_VisibleOnlyIfFrameShowsIt ==
  /\ \A k \in BoneIds :
       skeletonRenderer.bones[k].visible =>
         /\ skeletonRenderer.showBones
         /\ FrameAccepted
         /\ ConfidentInAccepted(Connections[k][1])
         /\ ConfidentInAccepted(Connections[k][2])
         /\ DistinctInAccepted(Connections[k][1], Connections[k][2])
  /\ \A i \in LandmarkIds :
       skeletonRenderer.joints[i].visible =>
         /\ skeletonRenderer.showJoints
         /\ FrameAccepted
         /\ ConfidentInAccepted(i)

---------------------------------------------------------------------------
(* Claims about the receiving status of the viewers                        *)

\* the time the PoseReceiver of a viewer noted for the last frame
LastReceived(v) == poseReceivers[v].lastReceivedTime

\* the step delivers a frame to viewer v
FrameStep(v) == call'.op = "onPoseData" /\ calls' = calls + 1 /\ call'.viewer = v

\* the step is a run of the status check of viewer v
CheckStep(v) ==
  /\ call'.op = "checkReceiving"
  /\ call'.viewer = v
  /\ WatchdogAt(v) <= now

\* C30: in both viewers every received pose frame sets the status to
\* connected / receiving; whenever more than 1000 ms have passed since the
\* last received frame, the next run of the 1-second status check sets the
\* status to disconnected / waiting; so the status is never 'receiving' more
\* than 2 seconds after the last frame, and it is 'receiving' again on the
\* next frame.
C30_StatusFollowsFrames ==
  [][ \A v \in Viewers :
        /\ FrameStep(v) => Receiving(v)'
        /\ (CheckStep(v) /\ now - LastReceived(v) > 1000) => ~Receiving(v)'
        /\ Receiving(v)' => now' - LastReceived(v)' <= 2000 ]_vars

\* C30 witness: each viewer got a frame, which set its status to receiving,
\* and a status check more than 1000 ms later has reset it
C30_Witness ==
  /\ call.op = "checkReceiving"
  /\ \A v \in Viewers :
       /\ Len(poseReceivers[v].deliveries) >= 1
       /\ LastReceived(v) > 0
       /\ now - LastReceived(v) > 1000
       /\ ~Receiving(v)

===========================================================================
